---- MODULE Spec2Model ----
(***************************************************************************)
(* Preference learning and ranking of the Douyin downloader:               *)
(* PreferenceService (src/src/preferenceService.js), the user_preferences  *)
(* table of Database (src/src/db.js) and VectorStore                       *)
(* (src/src/vectorStore.js).                                               *)
(*                                                                         *)
(* JavaScript numbers are modelled as exact numbers: a rational is a pair  *)
(* <<n, d>> in lowest terms with d > 0, and a real is a finite linear      *)
(* combination, with rational coefficients, of the atoms 1, ln p (p prime) *)
(* and sqrt(n/d).  Rounding of IEEE doubles is not modelled.               *)
(***************************************************************************)
EXTENDS Integers, Sequences, FiniteSets, TLC

VARIABLES
  video_features,    \* table video_features: aweme_id -> row
  video_vectors,     \* table video_vectors (vectors.sqlite): aweme_id -> vector
  user_preferences,  \* table user_preferences: <<feature_key, feature_value>> -> row
  user_profiles,     \* table user_profiles (vectors.sqlite): user_id -> row
  prefHistory,       \* per pair, the weights handed to updateUserPreference: [sum, n]
  profileHistory,    \* the vectors handed to updateUserProfile: [sum, n]
  events,            \* number of processFeedback invocations so far
  last,              \* the last operation, its arguments and what it returned
  failing,           \* the pairs whose row of user_preferences cannot be read or written
  calls,             \* the processFeedback invocations in progress at the same time
  download,          \* the Downloader and the downloadFile call it is executing
  user_feedback,     \* the rows of the user_feedback table, in insertion order
  download_jobs,     \* the download_jobs table: job_id -> row
  batch_download_jobs, \* the batch_download_jobs table: job_id -> row
  processor          \* the DownloadTaskProcessor and the calls it is executing

vars == <<video_features, video_vectors, user_preferences, user_profiles,
          prefHistory, profileHistory, events, last, failing, calls, download,
          user_feedback, download_jobs, batch_download_jobs, processor>>

\* Bounds of the model.
MaxEvents == 3
MaxBatch == 2
MaxSamples == 2
MaxCoord == 1
MaxRetryEnv == 2
MaxFiles == 3
MaxFaults == 1
MaxCalls == 2
MaxDim == 3
MaxJobs == 2
MaxBatchJobs == 1
MaxAwemeIds == 2

\* A table is a function whose domain is the set of keys that have a row.
\* What a lookup returns: <<row>>, or Null (JavaScript undefined / null).
Null == <<>>
Some(x) == <<x>>
EmptyTable == [k \in {} |-> Null]

(***************************************************************************)
(* Exact arithmetic                                                        *)
(***************************************************************************)
Abs(x) == IF x < 0 THEN -x ELSE x

RECURSIVE GCD(_, _)
GCD(a, b) == IF b = 0 THEN a ELSE GCD(b, a % b)

\* n/d in lowest terms, d # 0
RNorm(n, d) ==
  LET s == IF d < 0 THEN -1 ELSE 1
      g == GCD(Abs(n), Abs(d))
  IN  <<(s * n) \div g, (s * d) \div g>>

RInt(n) == <<n, 1>>
RAdd(a, b) == RNorm(a[1] * b[2] + b[1] * a[2], a[2] * b[2])
RMul(a, b) == RNorm(a[1] * b[1], a[2] * b[2])
RDiv(a, b) == RNorm(a[1] * b[2], a[2] * b[1])
RLess(a, b) == a[1] * b[2] < b[1] * a[2]
RLeq(a, b) == a[1] * b[2] <= b[1] * a[2]

\* Reals: a function from atoms to non-zero rational coefficients.
One == <<"one", 1, 1>>
LnAtom(p) == <<"ln", p, 1>>
SqrtAtom(n, d) == <<"sqrt", n, d>>

RealZero == [a \in {} |-> RInt(0)]
RealCoef(x, a) == IF a \in DOMAIN x THEN x[a] ELSE RInt(0)
RealOfRat(q) == IF q[1] = 0 THEN RealZero ELSE [a \in {One} |-> q]
RealAtom(a) == [b \in {a} |-> RInt(1)]
RealAdd(x, y) ==
  LET co(a) == RAdd(RealCoef(x, a), RealCoef(y, a))
  IN  [a \in {b \in (DOMAIN x) \cup (DOMAIN y) : co(b)[1] # 0} |-> co(a)]
RealScale(q, x) ==
  IF q[1] = 0 THEN RealZero ELSE [a \in DOMAIN x |-> RMul(q, x[a])]

IsSquare(n) == \E r \in 0..n : r * r = n
ISqrt(n) == CHOOSE r \in 0..n : r * r = n

\* Math.log(k) for an integer k >= 1, as a sum of logarithms of primes
RECURSIVE MathLog(_)
MathLog(k) ==
  IF k <= 1 THEN RealZero
  ELSE LET p == CHOOSE p \in 2..k : k % p = 0 /\ \A q \in 2..(p - 1) : k % q # 0
       IN  RealAdd(RealAtom(LnAtom(p)), MathLog(k \div p))

RECURSIVE Pow(_, _)
Pow(b, e) == IF e = 0 THEN 1 ELSE b * Pow(b, e - 1)

\* The product of p ^ (s * coefficient * D) over the logarithms ln p of x whose
\* coefficient has the sign s, D being a common denominator of the coefficients
RECURSIVE LnPower(_, _, _, _)
LnPower(x, atoms, D, s) ==
  IF atoms = {} THEN 1
  ELSE LET a == CHOOSE b \in atoms : TRUE
           e == s * x[a][1] * (D \div x[a][2])
       IN  (IF e > 0 THEN Pow(a[2], e) ELSE 1) * LnPower(x, atoms \ {a}, D, s)

RECURSIVE Denominator(_, _)
Denominator(x, atoms) ==
  IF atoms = {} THEN 1
  ELSE LET a == CHOOSE b \in atoms : TRUE
       IN  x[a][2] * Denominator(x, atoms \ {a})

Sign(n) == IF n < 0 THEN -1 ELSE IF n > 0 THEN 1 ELSE 0

\* The sign of a real that is a rational, a sum of logarithms, a sum of two
\* multiples of square roots, or a rational plus a multiple of one square root
RealSign(x) ==
  LET atoms == DOMAIN x
      lns == {a \in atoms : a[1] = "ln"}
      sqrts == {a \in atoms : a[1] = "sqrt"}
  IN  CASE atoms = {} -> 0
        [] atoms = {One} -> Sign(x[One][1])
        [] atoms # {} /\ atoms = lns ->
             LET D == Denominator(x, atoms)
             IN  IF LnPower(x, atoms, D, 1) > LnPower(x, atoms, D, -1) THEN 1 ELSE -1
        [] atoms = sqrts /\ Cardinality(sqrts) = 2 ->
             LET a == CHOOSE b \in sqrts : TRUE
                 c == CHOOSE b \in sqrts : b # a
                 aa == RMul(RMul(x[a], x[a]), <<a[2], a[3]>>)
                 cc == RMul(RMul(x[c], x[c]), <<c[2], c[3]>>)
             IN  IF Sign(x[a][1]) = Sign(x[c][1]) THEN Sign(x[a][1])
                 ELSE IF RLess(cc, aa) THEN Sign(x[a][1])
                 ELSE IF RLess(aa, cc) THEN Sign(x[c][1])
                 ELSE 0
        [] lns = {} /\ Cardinality(sqrts) = 1 ->
             LET a == CHOOSE b \in sqrts : TRUE
                 r == RealCoef(x, One)
                 c == x[a]
                 cc == RMul(RMul(c, c), <<a[2], a[3]>>)
                 rr == RMul(r, r)
             IN  IF Sign(r[1]) = 0 \/ Sign(r[1]) = Sign(c[1]) THEN Sign(c[1])
                 ELSE IF RLess(rr, cc) THEN Sign(c[1])
                 ELSE IF RLess(cc, rr) THEN Sign(r[1])
                 ELSE 0

\* x < y, and b - a of a comparator
RealSub(x, y) == RealAdd(x, RealScale(RInt(-1), y))
RealLess(x, y) == RealSign(RealSub(y, x)) = 1

(***************************************************************************)
(* Configuration (PreferenceService.constructor)                           *)
(***************************************************************************)
likeWeight == 1
dislikeWeight == -1
vectorWeight == <<7, 10>>

(***************************************************************************)
(* The works the monitor has downloaded, what the analyser extracts from   *)
(* each (AIAnalyzer.mergeFrameFeatures) and the embedding of each.         *)
(***************************************************************************)
Items == {"v1", "v2", "v3"}
FeedbackTypes == {"like", "dislike"}
\* What a request can carry as feedback_type: also a string that is neither, a
\* string that differs from 'like' by case, and nothing ("" for undefined)
AnyFeedbackTypes == FeedbackTypes \cup {"skip", "Like", ""}

mergeFrameFeatures(aweme_id) ==
  CASE aweme_id = "v1" ->
         [primary_scene_type |-> "indoor", primary_colors |-> <<>>,
          primary_styles |-> <<>>, top_tags |-> <<"cat">>,
          description_summary |-> "a room"]
    [] aweme_id = "v2" ->
         [primary_scene_type |-> "indoor", primary_colors |-> <<>>,
          primary_styles |-> <<>>, top_tags |-> <<>>,
          description_summary |-> "a room"]
    [] OTHER ->
         [primary_scene_type |-> "outdoor", primary_colors |-> <<"red">>,
          primary_styles |-> <<"cute">>, top_tags |-> <<"cat">>,
          description_summary |-> "a park"]

generateEmbedding(aweme_id) ==
  CASE aweme_id = "v1" -> <<RInt(1), RInt(0)>>
    [] aweme_id = "v2" -> <<RInt(1), RInt(0)>>
    [] OTHER -> <<RInt(-1), RInt(1)>>

(***************************************************************************)
(* Database (video_features, user_preferences)                             *)
(***************************************************************************)
\* db.getVideoFeatures: the row, or undefined
getVideoFeatures(features, aweme_id) ==
  IF aweme_id \in DOMAIN features THEN Some(features[aweme_id]) ELSE Null

\* updateUserPreference with the new score smoothed, (old + delta) / 2, instead of
\* weighted by sample_count
updateUserPreference_Smoothed(prefs, featureKey, featureValue, scoreDelta) ==
  LET k == <<featureKey, featureValue>>
  IN  IF k \in DOMAIN prefs
      THEN [prefs EXCEPT ![k] =
              [preference_score |-> RDiv(RAdd(@.preference_score, RInt(scoreDelta)),
                                         RInt(2)),
               sample_count |-> @.sample_count + 1]]
      ELSE (k :> [preference_score |-> RInt(scoreDelta), sample_count |-> 1]) @@ prefs

\* updateUserPreference whose UPDATE selects the rows by feature_key alone
updateUserPreference_KeyOnly(prefs, featureKey, featureValue, scoreDelta) ==
  LET k == <<featureKey, featureValue>>
      upd(row) == [preference_score |->
                     RDiv(RAdd(RMul(row.preference_score, RInt(row.sample_count)),
                               RInt(scoreDelta)),
                          RInt(row.sample_count + 1)),
                   sample_count |-> row.sample_count + 1]
  IN  IF k \in DOMAIN prefs
      THEN [j \in DOMAIN prefs |-> IF j[1] = featureKey THEN upd(prefs[j]) ELSE prefs[j]]
      ELSE (k :> [preference_score |-> RInt(scoreDelta), sample_count |-> 1]) @@ prefs

\* updateUserPreference that adds the delta to the stored score without
\* averaging
updateUserPreference_Accumulated(prefs, featureKey, featureValue, scoreDelta) ==
  LET k == <<featureKey, featureValue>>
  IN  IF k \in DOMAIN prefs
      THEN [prefs EXCEPT ![k] =
              [preference_score |-> RAdd(@.preference_score, RInt(scoreDelta)),
               sample_count |-> @.sample_count + 1]]
      ELSE (k :> [preference_score |-> RInt(scoreDelta), sample_count |-> 1]) @@ prefs

\* updateUserPreference that replaces an existing row by a first row
updateUserPreference_Replaced(prefs, featureKey, featureValue, scoreDelta) ==
  LET k == <<featureKey, featureValue>>
  IN  (k :> [preference_score |-> RInt(scoreDelta), sample_count |-> 1]) @@ prefs

\* db.updateUserPreference: SELECT the row of (featureKey, featureValue), then
\* UPDATE it with the weighted average or INSERT it with sample_count 1
updateUserPreference(prefs, featureKey, featureValue, scoreDelta) ==
  LET k == <<featureKey, featureValue>>
  IN  IF k \in DOMAIN prefs
      THEN LET row == prefs[k]
               newSampleCount == row.sample_count + 1
               currentScore == row.preference_score
               newScore == RDiv(RAdd(RMul(currentScore, RInt(row.sample_count)),
                                     RInt(scoreDelta)),
                                RInt(newSampleCount))
           IN  [prefs EXCEPT ![k] = [preference_score |-> newScore,
                                     sample_count |-> newSampleCount]]
      ELSE (k :> [preference_score |-> RInt(scoreDelta), sample_count |-> 1]) @@ prefs

(***************************************************************************)
(* VectorStore                                                             *)
(***************************************************************************)
\* vectorStore.getVector: the stored vector, or null
getVector(vectors, aweme_id) ==
  IF aweme_id \in DOMAIN vectors THEN Some(vectors[aweme_id]) ELSE Null

\* vectorStore.getUserProfileVector: the vector of the profile of userId, or null
getUserProfileVector(profiles, userId) ==
  IF userId \in DOMAIN profiles THEN Some(profiles[userId].vector) ELSE Null

\* updateUserProfile that forgets to weigh the stored vector by count
updateUserProfile_Unweighted(profiles, newVector, userId) ==
  IF userId \notin DOMAIN profiles
  THEN (userId :> [vector |-> newVector, count |-> 1]) @@ profiles
  ELSE [profiles EXCEPT ![userId] =
          [vector |-> [idx \in DOMAIN @.vector |->
                         RDiv(RAdd(@.vector[idx], newVector[idx]), RInt(@.count + 1))],
           count |-> @.count + 1]]

\* A coordinate of a stored vector is a number or the null that JSON.stringify
\* writes for NaN; in arithmetic null counts as 0
ToNumber(x) == IF x = Null THEN RInt(0) ELSE x

\* (val * count + newVector[idx]) / (count + 1): NaN, stored as null, when
\* newVector has no coordinate idx
meanCoordinate(val, count, newVector, idx) ==
  IF idx \notin DOMAIN newVector THEN Null
  ELSE RDiv(RAdd(RMul(ToNumber(val), RInt(count)), ToNumber(newVector[idx])),
            RInt(count + 1))

\* updateUserProfile that maps over the incoming vector
updateUserProfile_IncomingLength(profiles, newVector, userId) ==
  IF userId \notin DOMAIN profiles
  THEN (userId :> [vector |-> newVector, count |-> 1]) @@ profiles
  ELSE LET currentVector == profiles[userId].vector
           count == profiles[userId].count
           updatedVector == [idx \in DOMAIN newVector |->
                               IF idx \in DOMAIN currentVector
                               THEN meanCoordinate(currentVector[idx], count,
                                                   newVector, idx)
                               ELSE newVector[idx]]
       IN  [profiles EXCEPT ![userId] = [vector |-> updatedVector,
                                         count |-> count + 1]]

\* vectorStore.updateUserProfile: read (vector, count) of userId, write the
\* running mean of the vectors, one coordinate of the stored vector at a time
updateUserProfile(profiles, newVector, userId) ==
  IF userId \notin DOMAIN profiles
  THEN (userId :> [vector |-> newVector, count |-> 1]) @@ profiles
  ELSE LET currentVector == profiles[userId].vector
           count == profiles[userId].count
           updatedVector == [idx \in DOMAIN currentVector |->
                               meanCoordinate(currentVector[idx], count,
                                              newVector, idx)]
       IN  [profiles EXCEPT ![userId] = [vector |-> updatedVector,
                                         count |-> count + 1]]

(***************************************************************************)
(* AIAnalyzer.cosineSimilarity: dot(a, b) / (|a| * |b|), and 0 when a norm *)
(* is zero.  The value is sign(dot) * sqrt(dot^2 / (|a|^2 * |b|^2)).       *)
(***************************************************************************)
RECURSIVE DotFrom(_, _, _)
DotFrom(a, b, i) ==
  IF i > Len(a) THEN RInt(0) ELSE RAdd(RMul(a[i], b[i]), DotFrom(a, b, i + 1))
Dot(a, b) == DotFrom(a, b, 1)

\* sign * sqrt(q) for a rational q >= 0
SignedSqrt(sign, q) ==
  IF q[1] = 0 \/ sign = 0 THEN RealZero
  ELSE IF IsSquare(q[1]) /\ IsSquare(q[2])
       THEN RealOfRat(<<sign * ISqrt(q[1]), ISqrt(q[2])>>)
       ELSE RealScale(RInt(sign), RealAtom(SqrtAtom(q[1], q[2])))

\* cosineSimilarity that does not divide by the norms
cosineSimilarity_Unnormalized(a, b) == RealOfRat(Dot(a, b))

cosineSimilarity(a, b) ==
  LET dot == Dot(a, b)
      normA == Dot(a, a)
      normB == Dot(b, b)
  IN  IF normA[1] = 0 \/ normB[1] = 0 THEN RealZero
      ELSE SignedSqrt(IF dot[1] < 0 THEN -1 ELSE IF dot[1] > 0 THEN 1 ELSE 0,
                      RDiv(RMul(dot, dot), RMul(normA, normB)))

(***************************************************************************)
(* PreferenceService                                                       *)
(***************************************************************************)
\* features[key] = value on a JavaScript object kept as its list of entries
Put(entries, key, value) ==
  IF \E i \in DOMAIN entries : entries[i][1] = key
  THEN [i \in DOMAIN entries |->
          IF entries[i][1] = key THEN <<key, value>> ELSE entries[i]]
  ELSE Append(entries, <<key, value>>)

\* list.forEach(x => { features[`${prefix}${x}`] = x })
RECURSIVE PutEach(_, _, _)
PutEach(entries, prefix, list) ==
  IF list = <<>> THEN entries
  ELSE PutEach(Put(entries, prefix \o Head(list), Head(list)), prefix, Tail(list))

\* extractFeaturesFromVideo: Object.entries of the features object it builds
extractFeaturesFromVideo(videoFeatures) ==
  LET scene == IF videoFeatures.primary_scene_type # ""
               THEN Put(<<>>, "scene_type", videoFeatures.primary_scene_type)
               ELSE <<>>
      colors == PutEach(scene, "color_", videoFeatures.primary_colors)
      styles == PutEach(colors, "style_", videoFeatures.primary_styles)
  IN  PutEach(styles, "tag_", videoFeatures.top_tags)

\* The stores processFeedback writes, with the record of the calls it makes
Stores == [user_preferences |-> user_preferences, user_profiles |-> user_profiles,
           prefHistory |-> prefHistory, profileHistory |-> profileHistory]

\* Record of one call db.updateUserPreference(key, value, weight)
NoteUpdate(hist, key, value, weight) ==
  LET k == <<key, value>>
  IN  IF k \in DOMAIN hist
      THEN [hist EXCEPT ![k] = [sum |-> @.sum + weight, n |-> @.n + 1]]
      ELSE (k :> [sum |-> weight, n |-> 1]) @@ hist

\* Record of one call vectorStore.updateUserProfile(vector)
NoteProfile(hist, vector) ==
  IF hist.n = 0 THEN [sum |-> vector, n |-> 1]
  ELSE [sum |-> [i \in DOMAIN hist.sum |->
                   IF i \in DOMAIN vector THEN RAdd(hist.sum[i], vector[i])
                   ELSE hist.sum[i]],
        n |-> hist.n + 1]

\* db.updateUserPreference(key, value, ...) rejects: the SELECT or the UPDATE /
\* INSERT of the row of this pair calls back with an error
rejects(key, value) == <<key, value>> \in failing

\* Object.entries(features).map(([key, value]) => db.updateUserPreference(key,
\* value, weight)) and Promise.all of the result
RECURSIVE updatePromises(_, _, _)
updatePromises(st, entries, weight) ==
  IF entries = <<>> THEN st
  ELSE LET key == Head(entries)[1]
           value == Head(entries)[2]
       IN  updatePromises(
             [st EXCEPT
                !.user_preferences = IF rejects(key, value) THEN @
                                     ELSE updateUserPreference(@, key, value, weight),
                !.prefHistory = NoteUpdate(@, key, value, weight)],
             Tail(entries), weight)

\* Promise.all(updatePromises) rejects when one of the promises does
anyRejects(entries) ==
  \E i \in DOMAIN entries : rejects(entries[i][1], entries[i][2])

\* The profile update of processFeedback: the stores after it
foldProfile(st, aweme_id) ==
  LET videoVector == getVector(video_vectors, aweme_id)
  IN  IF videoVector = Null THEN st
      ELSE [st EXCEPT
              !.user_profiles = updateUserProfile(@, videoVector[1], "default"),
              !.profileHistory = NoteProfile(@, videoVector[1])]

\* processFeedback that updates the profile before it looks for the features
processFeedback_VectorFirst(st, aweme_id, feedbackType) ==
  LET videoFeatures == getVideoFeatures(video_features, aweme_id)
      folded == IF feedbackType = "like" THEN foldProfile(st, aweme_id) ELSE st
  IN  IF videoFeatures = Null
      THEN [st |-> folded, ret |-> FALSE]
      ELSE [st |-> updatePromises(folded,
                     extractFeaturesFromVideo(videoFeatures[1].ai_features),
                     IF feedbackType = "like" THEN likeWeight ELSE dislikeWeight),
            ret |-> TRUE]

\* processFeedback that updates the profile whatever the feedback type
processFeedback_AnyType(st, aweme_id, feedbackType) ==
  LET videoFeatures == getVideoFeatures(video_features, aweme_id)
  IN  IF videoFeatures = Null
      THEN [st |-> st, ret |-> FALSE]
      ELSE [st |-> foldProfile(
                     updatePromises(st,
                       extractFeaturesFromVideo(videoFeatures[1].ai_features),
                       IF feedbackType = "like" THEN likeWeight ELSE dislikeWeight),
                     aweme_id),
            ret |-> TRUE]

\* processFeedback that fails a like whose work has no vector
processFeedback_NeedsVector(st, aweme_id, feedbackType) ==
  LET videoFeatures == getVideoFeatures(video_features, aweme_id)
  IN  IF videoFeatures = Null
      THEN [st |-> st, ret |-> FALSE]
      ELSE LET updated == updatePromises(st,
                            extractFeaturesFromVideo(videoFeatures[1].ai_features),
                            IF feedbackType = "like" THEN likeWeight ELSE dislikeWeight)
           IN  IF feedbackType = "like"
               THEN [st |-> foldProfile(updated, aweme_id),
                     ret |-> getVector(video_vectors, aweme_id) # Null]
               ELSE [st |-> updated, ret |-> TRUE]

\* processFeedback that takes every type other than 'dislike' for a like
processFeedback_DislikeExact(st, aweme_id, feedbackType) ==
  LET videoFeatures == getVideoFeatures(video_features, aweme_id)
  IN  IF videoFeatures = Null
      THEN [st |-> st, ret |-> FALSE]
      ELSE LET features == extractFeaturesFromVideo(videoFeatures[1].ai_features)
               weight == IF feedbackType = "dislike" THEN dislikeWeight
                         ELSE likeWeight
               updated == updatePromises(st, features, weight)
           IN  IF anyRejects(features)
               THEN [st |-> updated, ret |-> FALSE]
               ELSE [st |-> IF feedbackType # "dislike"
                            THEN foldProfile(updated, aweme_id) ELSE updated,
                     ret |-> TRUE]

\* processFeedback whose profile update does not wait for Promise.all
processFeedback_ProfileAnyway(st, aweme_id, feedbackType) ==
  LET videoFeatures == getVideoFeatures(video_features, aweme_id)
  IN  IF videoFeatures = Null
      THEN [st |-> st, ret |-> FALSE]
      ELSE LET features == extractFeaturesFromVideo(videoFeatures[1].ai_features)
               weight == IF feedbackType = "like" THEN likeWeight ELSE dislikeWeight
               updated == updatePromises(st, features, weight)
           IN  [st |-> IF feedbackType = "like" THEN foldProfile(updated, aweme_id)
                       ELSE updated,
                ret |-> ~anyRejects(features)]

\* processFeedback(aweme_id, feedbackType) on the stores st: the stores after the
\* call and the value returned
processFeedback(st, aweme_id, feedbackType) ==
  LET videoFeatures == getVideoFeatures(video_features, aweme_id)
  IN  IF videoFeatures = Null
      THEN [st |-> st, ret |-> FALSE]
      ELSE LET features == extractFeaturesFromVideo(videoFeatures[1].ai_features)
               weight == IF feedbackType = "like" THEN likeWeight ELSE dislikeWeight
               updated == updatePromises(st, features, weight)
               videoVector == getVector(video_vectors, aweme_id)
           IN  IF anyRejects(features)
               THEN [st |-> updated, ret |-> FALSE]
               ELSE
               IF feedbackType = "like" /\ videoVector # Null
               THEN [st |-> [updated EXCEPT
                        !.user_profiles = updateUserProfile(@, videoVector[1], "default"),
                        !.profileHistory = NoteProfile(@, videoVector[1])],
                     ret |-> TRUE]
               ELSE [st |-> updated, ret |-> TRUE]

\* processBatchFeedback(feedbacks): the loop over the feedbacks, from the i-th on;
\* acc holds the stores, the results pushed and the invocations logged so far
RECURSIVE batchLoop(_, _, _)
batchLoop(acc, feedbacks, i) ==
  IF i > Len(feedbacks) THEN acc
  ELSE LET aweme_id == feedbacks[i].aweme_id
           feedback_type == feedbacks[i].feedback_type
           r == processFeedback(acc.st, aweme_id, feedback_type)
       IN  batchLoop([st |-> r.st,
                      results |-> Append(acc.results,
                                         [aweme_id |-> aweme_id,
                                          feedback_type |-> feedback_type,
                                          success |-> r.ret]),
                      log |-> Append(acc.log, <<aweme_id, feedback_type>>)],
                     feedbacks, i + 1)

\* processBatchFeedback whose loop ends at the first feedback that fails
RECURSIVE batchLoop_Stop(_, _, _)
batchLoop_Stop(acc, feedbacks, i) ==
  IF i > Len(feedbacks) THEN acc
  ELSE LET r == processFeedback(acc.st, feedbacks[i].aweme_id, feedbacks[i].feedback_type)
           next == [st |-> r.st,
                    results |-> Append(acc.results,
                                       [aweme_id |-> feedbacks[i].aweme_id,
                                        feedback_type |-> feedbacks[i].feedback_type,
                                        success |-> r.ret]),
                    log |-> Append(acc.log, <<feedbacks[i].aweme_id,
                                              feedbacks[i].feedback_type>>)]
       IN  IF r.ret THEN batchLoop_Stop(next, feedbacks, i + 1) ELSE next

processBatchFeedback_Stop(st, feedbacks) ==
  batchLoop_Stop([st |-> st, results |-> <<>>, log |-> <<>>], feedbacks, 1)

processBatchFeedback(st, feedbacks) ==
  batchLoop([st |-> st, results |-> <<>>, log |-> <<>>], feedbacks, 1)

\* db.getUserPreferences: the rows, ORDER BY preference_score DESC, sample_count DESC
RECURSIVE OrderRows(_, _)
OrderRows(prefs, keys) ==
  IF keys = {} THEN <<>>
  ELSE LET first == CHOOSE k \in keys : \A j \in keys :
                      \/ RLess(prefs[j].preference_score, prefs[k].preference_score)
                      \/ /\ prefs[j].preference_score = prefs[k].preference_score
                         /\ prefs[j].sample_count <= prefs[k].sample_count
       IN  <<[feature_key |-> first[1], feature_value |-> first[2],
              preference_score |-> prefs[first].preference_score,
              sample_count |-> prefs[first].sample_count]>>
           \o OrderRows(prefs, keys \ {first})

getUserPreferences(prefs) == OrderRows(prefs, DOMAIN prefs)

\* aiFeatures[feature_key] === feature_value: a string equals only a string
\* property of ai_features; its other properties are arrays
StringProperties == {"primary_scene_type", "description_summary"}
MatchesFeature(aiFeatures, feature_key, feature_value) ==
  /\ feature_key \in DOMAIN aiFeatures
  /\ feature_key \in StringProperties
  /\ aiFeatures[feature_key] = feature_value

\* preferences.forEach(pref => ...) from the i-th row on: [totalScore, matchCount]
RECURSIVE forEachPref(_, _, _, _)
forEachPref(acc, preferences, aiFeatures, i) ==
  IF i > Len(preferences) THEN acc
  ELSE LET pref == preferences[i]
       IN  forEachPref(
             IF /\ RLess(RInt(0), pref.preference_score)
                /\ MatchesFeature(aiFeatures, pref.feature_key, pref.feature_value)
             THEN [totalScore |-> RealAdd(acc.totalScore,
                                    RealScale(pref.preference_score,
                                              MathLog(pref.sample_count + 1))),
                   matchCount |-> acc.matchCount + 1]
             ELSE acc,
             preferences, aiFeatures, i + 1)

\* calculateVideoPreferenceScore that divides by the number of the work's
\* attributes, not by the number of matches
calculateVideoPreferenceScore_PerAttribute(aweme_id) ==
  LET features == getVideoFeatures(video_features, aweme_id)
      preferences == getUserPreferences(user_preferences)
  IN  IF features = Null THEN RealZero
      ELSE IF Len(preferences) = 0 THEN RealZero
      ELSE LET sums == forEachPref([totalScore |-> RealZero, matchCount |-> 0],
                                   preferences, features[1].ai_features, 1)
               count == Len(extractFeaturesFromVideo(features[1].ai_features))
           IN  IF sums.matchCount > 0
               THEN RealScale(<<1, count>>, sums.totalScore)
               ELSE RealZero

\* db.calculateVideoPreferenceScore(aweme_id)
calculateVideoPreferenceScore(aweme_id) ==
  LET features == getVideoFeatures(video_features, aweme_id)
      preferences == getUserPreferences(user_preferences)
  IN  IF features = Null THEN RealZero
      ELSE IF Len(preferences) = 0 THEN RealZero
      ELSE LET sums == forEachPref([totalScore |-> RealZero, matchCount |-> 0],
                                   preferences, features[1].ai_features, 1)
           IN  IF sums.matchCount > 0
               THEN RealScale(<<1, sums.matchCount>>, sums.totalScore)
               ELSE RealZero

\* videosWithScores.sort((a, b) => b.preference_score - a.preference_score):
\* Array.prototype.sort is stable, an element goes behind those it does not beat
insertVideo_Ascending(sorted, video) ==
  LET n == Cardinality({i \in DOMAIN sorted :
                          ~RealLess(video.preference_score, sorted[i].preference_score)})
  IN  SubSeq(sorted, 1, n) \o <<video>> \o SubSeq(sorted, n + 1, Len(sorted))

insertVideo(sorted, video) ==
  LET n == Cardinality({i \in DOMAIN sorted :
                          ~RealLess(sorted[i].preference_score, video.preference_score)})
  IN  SubSeq(sorted, 1, n) \o <<video>> \o SubSeq(sorted, n + 1, Len(sorted))

RECURSIVE sortFrom(_, _, _)
sortFrom(sorted, videosWithScores, i) ==
  IF i > Len(videosWithScores) THEN sorted
  ELSE sortFrom(insertVideo(sorted, videosWithScores[i]), videosWithScores, i + 1)

\* summaryService.sortVideosByPreference(videos); rejected: a read of the
\* database fails while the scores are computed
sortVideosByPreference(videos, rejected) ==
  IF rejected THEN videos
  ELSE sortFrom(<<>>,
                [i \in DOMAIN videos |->
                   [aweme_id |-> videos[i].aweme_id,
                    preference_score |->
                      calculateVideoPreferenceScore(videos[i].aweme_id)]],
                1)

\* getVideoRecommendationScore that blends the raw similarity, not (similarity + 1) * 5
getVideoRecommendationScore_Unnormalized(aweme_id) ==
  LET tagScore == calculateVideoPreferenceScore(aweme_id)
      userVector == getUserProfileVector(user_profiles, "default")
      videoVector == getVector(video_vectors, aweme_id)
      vectorScore == IF userVector # Null /\ videoVector # Null
                     THEN cosineSimilarity(userVector[1], videoVector[1])
                     ELSE RealZero
  IN  IF vectorScore = RealZero THEN tagScore
      ELSE RealAdd(RealScale(RAdd(RInt(1), RMul(RInt(-1), vectorWeight)), tagScore),
                   RealScale(vectorWeight, vectorScore))

\* preferenceService.getVideoRecommendationScore(aweme_id)
getVideoRecommendationScore(aweme_id) ==
  LET tagScore == calculateVideoPreferenceScore(aweme_id)
      userVector == getUserProfileVector(user_profiles, "default")
      videoVector == getVector(video_vectors, aweme_id)
      vectorScore == IF userVector # Null /\ videoVector # Null
                     THEN cosineSimilarity(userVector[1], videoVector[1])
                     ELSE RealZero
      normalizedVectorScore == RealScale(RInt(5), RealAdd(vectorScore, RealOfRat(RInt(1))))
  IN  IF vectorScore = RealZero THEN tagScore
      ELSE RealAdd(RealScale(RAdd(RInt(1), RMul(RInt(-1), vectorWeight)), tagScore),
                   RealScale(vectorWeight, normalizedVectorScore))

\* rows.sort((a, b) => a.preference_score - b.preference_score): the stable sort
\* of Array.prototype.sort, an element goes behind those it does not precede
RECURSIVE sortAscending(_, _)
sortAscending(sorted, rows) ==
  IF rows = <<>> THEN sorted
  ELSE LET row == Head(rows)
           n == Cardinality({i \in DOMAIN sorted :
                   ~RLess(row.preference_score, sorted[i].preference_score)})
       IN  sortAscending(SubSeq(sorted, 1, n) \o <<row>>
                           \o SubSeq(sorted, n + 1, Len(sorted)),
                         Tail(rows))

RECURSIVE sortDescending(_, _)
sortDescending(sorted, rows) ==
  IF rows = <<>> THEN sorted
  ELSE LET row == Head(rows)
           n == Cardinality({i \in DOMAIN sorted :
                   ~RLess(sorted[i].preference_score, row.preference_score)})
       IN  sortDescending(SubSeq(sorted, 1, n) \o <<row>>
                            \o SubSeq(sorted, n + 1, Len(sorted)),
                          Tail(rows))

\* .slice(0, 10)
topCount == 10
slice(rows) == SubSeq(rows, 1, IF Len(rows) < topCount THEN Len(rows) ELSE topCount)

\* getUserPreferenceStats(): counts and top lists of the rows db.getUserPreferences
\* returns; filter and sort work on copies
getUserPreferenceStats(prefs) ==
  LET preferences == getUserPreferences(prefs)
      liked(p) == RLess(RInt(0), p.preference_score)
      disliked(p) == RLess(p.preference_score, RInt(0))
  IN  [total_features |-> Len(preferences),
       liked_features |-> Len(SelectSeq(preferences, liked)),
       disliked_features |-> Len(SelectSeq(preferences, disliked)),
       top_liked |-> slice(sortDescending(<<>>, SelectSeq(preferences, liked))),
       top_disliked |-> slice(sortAscending(<<>>, SelectSeq(preferences, disliked)))]

(***************************************************************************)
(* Downloader                                                              *)
(***************************************************************************)
defaultMaxRetry == 3

\* new Downloader(): this.maxRetry = parseInt(process.env.MAX_RETRY) || 3, with
\* MAX_RETRY unset (Null) or set to a number
Downloader(MAX_RETRY) ==
  [MAX_RETRY |-> MAX_RETRY,
   maxRetry |-> IF MAX_RETRY = Null \/ MAX_RETRY[1] = 0
                THEN defaultMaxRetry ELSE MAX_RETRY[1],
   pc |-> "idle", retryCount |-> 0, attempts |-> 0, result |-> "none", files |-> 0]

(***************************************************************************)
(* DownloadTaskProcessor                                                   *)
(***************************************************************************)
\* new DownloadTaskProcessor(): isProcessing = false, no timer; runs are the
\* calls of processJob and processBatchJob in progress, pass is the position
\* of processPendingJobs
DownloadTaskProcessor ==
  [isProcessing |-> FALSE, processingInterval |-> FALSE, pass |-> "idle",
   tick |-> "none", runs |-> <<>>, processItem |-> EmptyTable, rejected |-> 0]

\* A call of processJob or processBatchJob (kind), made by a request handler or
\* by a pass of processPendingJobs (owner), at its first await; the locals of
\* processBatchJob start at 0 and []
Run(kind, jobId, owner) ==
  [kind |-> kind, job_id |-> jobId, owner |-> owner, pc |-> "get",
   success |-> "none", next |-> 1, aweme_ids |-> <<>>,
   completedCount |-> 0, failedCount |-> 0, downloadUrls |-> <<>>]

\* downloader.processItem has been invoked once more for the job
NoteProcessItem(invoked, jobId) ==
  IF jobId \in DOMAIN invoked THEN [invoked EXCEPT ![jobId] = @ + 1]
  ELSE (jobId :> 1) @@ invoked

\* SELECT ... WHERE status = 'pending' ORDER BY created_at ASC LIMIT 1: job ids
\* are numbered in the order of their creation
Pending(jobs) == {j \in DOMAIN jobs : jobs[j].status = "pending"}
OldestPending(jobs) == CHOOSE j \in Pending(jobs) : \A i \in Pending(jobs) : j <= i

(***************************************************************************)
(* The state machine                                                       *)
(***************************************************************************)
Feedbacks == [aweme_id : Items, feedback_type : FeedbackTypes]
Batches == UNION {[1..n -> Feedbacks] : n \in 0..MaxBatch}

Last(op, aweme_id, feedbackType, ret, score, feedbacks, results, log) ==
  [op |-> op, aweme_id |-> aweme_id, feedbackType |-> feedbackType, ret |-> ret,
   score |-> score, feedbacks |-> feedbacks, results |-> results, log |-> log]

Init ==
  /\ video_features = EmptyTable
  /\ video_vectors = EmptyTable
  /\ user_preferences = EmptyTable
  /\ user_profiles = EmptyTable
  /\ prefHistory = EmptyTable
  /\ profileHistory = [sum |-> <<>>, n |-> 0]
  /\ events = 0
  /\ last = Last("init", "", "", FALSE, RealZero, <<>>, <<>>, <<>>)
  /\ failing = {}
  /\ calls = <<>>
  /\ download = Downloader(Null)
  /\ user_feedback = <<>>
  /\ download_jobs = EmptyTable
  /\ batch_download_jobs = EmptyTable
  /\ processor = DownloadTaskProcessor

\* The analysis of a work that has no features yet ends with db.saveVideoFeatures
SaveVideoFeatures(aweme_id) ==
  /\ aweme_id \notin DOMAIN video_features
  /\ video_features' = (aweme_id :> [ai_features |-> mergeFrameFeatures(aweme_id)])
                       @@ video_features
  /\ last' = Last("saveVideoFeatures", aweme_id, "", FALSE, RealZero, <<>>, <<>>, <<>>)
  /\ UNCHANGED <<video_vectors, user_preferences, user_profiles, prefHistory,
                 profileHistory, events>>
  /\ UNCHANGED <<failing, calls, download>>
  /\ UNCHANGED <<user_feedback, download_jobs, batch_download_jobs, processor>>

\* vectorStore.saveVector(awemeId, vector, description)
SaveVector(aweme_id) ==
  /\ aweme_id \notin DOMAIN video_vectors
  /\ video_vectors' = (aweme_id :> generateEmbedding(aweme_id)) @@ video_vectors
  /\ last' = Last("saveVector", aweme_id, "", FALSE, RealZero, <<>>, <<>>, <<>>)
  /\ UNCHANGED <<video_features, user_preferences, user_profiles, prefHistory,
                 profileHistory, events>>
  /\ UNCHANGED <<failing, calls, download>>
  /\ UNCHANGED <<user_feedback, download_jobs, batch_download_jobs, processor>>

SetStores(st) ==
  /\ user_preferences' = st.user_preferences
  /\ user_profiles' = st.user_profiles
  /\ prefHistory' = st.prefHistory
  /\ profileHistory' = st.profileHistory

ProcessFeedback(aweme_id, feedbackType) ==
  /\ events < MaxEvents
  /\ LET r == processFeedback(Stores, aweme_id, feedbackType)
     IN  /\ SetStores(r.st)
         /\ last' = Last("processFeedback", aweme_id, feedbackType, r.ret, RealZero,
                         <<>>, <<>>, <<>>)
  /\ events' = events + 1
  /\ UNCHANGED <<video_features, video_vectors>>
  /\ UNCHANGED <<failing, calls, download>>
  /\ UNCHANGED <<user_feedback, download_jobs, batch_download_jobs, processor>>

ProcessBatchFeedback(feedbacks) ==
  /\ events + Len(feedbacks) <= MaxBatch
  /\ LET r == processBatchFeedback(Stores, feedbacks)
     IN  /\ SetStores(r.st)
         /\ last' = Last("processBatchFeedback", "", "", FALSE, RealZero,
                         feedbacks, r.results, r.log)
  /\ events' = events + Len(feedbacks)
  /\ UNCHANGED <<video_features, video_vectors>>
  /\ UNCHANGED <<failing, calls, download>>
  /\ UNCHANGED <<user_feedback, download_jobs, batch_download_jobs, processor>>

GetVideoRecommendationScore(aweme_id) ==
  /\ last' = Last("getVideoRecommendationScore", aweme_id, "", FALSE,
                  getVideoRecommendationScore(aweme_id), <<>>, <<>>, <<>>)
  /\ UNCHANGED <<video_features, video_vectors, user_preferences, user_profiles,
                 prefHistory, profileHistory, events>>
  /\ UNCHANGED <<failing, calls, download>>
  /\ UNCHANGED <<user_feedback, download_jobs, batch_download_jobs, processor>>

Next ==
  \/ \E aweme_id \in Items : SaveVideoFeatures(aweme_id)
  \/ \E aweme_id \in Items : SaveVector(aweme_id)
  \/ \E aweme_id \in Items, feedbackType \in FeedbackTypes :
       ProcessFeedback(aweme_id, feedbackType)
  \/ \E aweme_id \in Items : GetVideoRecommendationScore(aweme_id)

Spec == Init /\ [][Next]_vars

\* The batches of POST /api/feedback alone, on the same stores
NextBatch ==
  \/ \E aweme_id \in Items : SaveVideoFeatures(aweme_id)
  \/ \E aweme_id \in Items : SaveVector(aweme_id)
  \/ \E feedbacks \in Batches : ProcessBatchFeedback(feedbacks)

SpecBatch == Init /\ [][NextBatch]_vars

(***************************************************************************)
(* The scoring functions on any stored data: every work analysed, and any   *)
(* user_preferences table whose rows are running means of weights +1, -1.  *)
(***************************************************************************)
ScoreKeys ==
  {<<"primary_scene_type", "indoor">>, <<"primary_scene_type", "outdoor">>,
   <<"description_summary", "a room">>}

PreferenceRows ==
  UNION {{[preference_score |-> RNorm(k, n), sample_count |-> n] :
            k \in {j \in (-n)..n : (n - j) % 2 = 0}} : n \in 1..MaxSamples}

PreferenceStores == UNION {[K -> PreferenceRows] : K \in SUBSET ScoreKeys}

\* The lists of works a digest is made of: no work twice
VideoLists ==
  {[i \in DOMAIN ids |-> [aweme_id |-> ids[i]]] :
     ids \in {q \in UNION {[1..n -> Items] : n \in 0..Cardinality(Items)} :
                \A i, j \in DOMAIN q : q[i] = q[j] => i = j}}

InitScore ==
  /\ video_features = [aweme_id \in Items |->
                         [ai_features |-> mergeFrameFeatures(aweme_id)]]
  /\ video_vectors = EmptyTable
  /\ user_preferences \in PreferenceStores
  /\ user_profiles = EmptyTable
  /\ prefHistory = EmptyTable
  /\ profileHistory = [sum |-> <<>>, n |-> 0]
  /\ events = 0
  /\ last = Last("init", "", "", FALSE, RealZero, <<>>, <<>>, <<>>)
  /\ failing = {}
  /\ calls = <<>>
  /\ download = Downloader(Null)
  /\ user_feedback = <<>>
  /\ download_jobs = EmptyTable
  /\ batch_download_jobs = EmptyTable
  /\ processor = DownloadTaskProcessor

SortVideosByPreference(videos, rejected) ==
  /\ last' = Last("sortVideosByPreference", "", "", ~rejected, RealZero, videos,
                  sortVideosByPreference(videos, rejected), <<>>)
  /\ UNCHANGED <<video_features, video_vectors, user_preferences, user_profiles,
                 prefHistory, profileHistory, events>>
  /\ UNCHANGED <<failing, calls, download>>
  /\ UNCHANGED <<user_feedback, download_jobs, batch_download_jobs, processor>>

NextScore ==
  \/ \E aweme_id \in Items : GetVideoRecommendationScore(aweme_id)
  \/ \E videos \in VideoLists, rejected \in BOOLEAN :
       SortVideosByPreference(videos, rejected)

SpecScore == InitScore /\ [][NextScore]_vars

\* The daily digest: the works are ranked on the stores that feedback has left
NextDigest ==
  \/ \E aweme_id \in Items : SaveVideoFeatures(aweme_id)
  \/ \E aweme_id \in Items : SaveVector(aweme_id)
  \/ \E aweme_id \in Items, feedbackType \in FeedbackTypes :
       ProcessFeedback(aweme_id, feedbackType)
  \/ \E videos \in VideoLists, rejected \in BOOLEAN :
       SortVideosByPreference(videos, rejected)

SpecDigest == Init /\ [][NextDigest]_vars

(***************************************************************************)
(* The similarity of any stored profile vector and any stored embedding:   *)
(* vectors of dimension 2 with coordinates in -MaxCoord..MaxCoord.         *)
(***************************************************************************)
Vectors == {<<RInt(x), RInt(y)>> : x, y \in (-MaxCoord)..MaxCoord}

InitCosine ==
  /\ video_features = [aweme_id \in Items |->
                         [ai_features |-> mergeFrameFeatures(aweme_id)]]
  /\ \E v1 \in Vectors, v2 \in {<<RInt(0), RInt(0)>>, generateEmbedding("v2")} :
       video_vectors = ("v1" :> v1) @@ ("v2" :> v2)
  /\ user_preferences = EmptyTable
  /\ \E vector \in Vectors :
       user_profiles = ("default" :> [vector |-> vector, count |-> 1])
  /\ prefHistory = EmptyTable
  /\ profileHistory = [sum |-> <<>>, n |-> 0]
  /\ events = 0
  /\ last = Last("init", "", "", FALSE, RealZero, <<>>, <<>>, <<>>)
  /\ failing = {}
  /\ calls = <<>>
  /\ download = Downloader(Null)
  /\ user_feedback = <<>>
  /\ download_jobs = EmptyTable
  /\ batch_download_jobs = EmptyTable
  /\ processor = DownloadTaskProcessor

NextCosine == \E aweme_id \in Items : GetVideoRecommendationScore(aweme_id)

SpecCosine == InitCosine /\ [][NextCosine]_vars

(***************************************************************************)
(* Downloader.downloadFile: the attempts at one file after another, under   *)
(* any MAX_RETRY of the environment, unset or 0..MaxRetryEnv.               *)
(***************************************************************************)
InitDownload ==
  /\ video_features = EmptyTable
  /\ video_vectors = EmptyTable
  /\ user_preferences = EmptyTable
  /\ user_profiles = EmptyTable
  /\ prefHistory = EmptyTable
  /\ profileHistory = [sum |-> <<>>, n |-> 0]
  /\ events = 0
  /\ last = Last("init", "", "", FALSE, RealZero, <<>>, <<>>, <<>>)
  /\ failing = {}
  /\ calls = <<>>
  /\ \E MAX_RETRY \in {Null} \cup {Some(n) : n \in 0..MaxRetryEnv} :
       download = Downloader(MAX_RETRY)
  /\ user_feedback = <<>>
  /\ download_jobs = EmptyTable
  /\ batch_download_jobs = EmptyTable
  /\ processor = DownloadTaskProcessor

Unrelated ==
  UNCHANGED <<video_features, video_vectors, user_preferences, user_profiles,
              prefHistory, profileHistory, events, last, failing, calls,
              user_feedback, download_jobs, batch_download_jobs, processor>>

\* downloadFile(url, filePath): the call of a caller, retryCount = 0
DownloadFile ==
  /\ download.pc \in {"idle", "returned"}
  /\ download.files < MaxFiles
  /\ download' = [download EXCEPT !.pc = "request", !.retryCount = 0,
                                  !.attempts = 1, !.result = "none",
                                  !.files = @ + 1]
  /\ Unrelated

\* ensureDirectory or the GET throws: the catch block retries with
\* retryCount + 1 while retryCount < this.maxRetry, and returns false otherwise
AttemptFails ==
  /\ download.pc = "request"
  /\ download' = IF download.retryCount < download.maxRetry
                 THEN [download EXCEPT !.retryCount = @ + 1, !.attempts = @ + 1]
                 ELSE [download EXCEPT !.pc = "returned", !.result = "false"]
  /\ Unrelated

\* The GET answers: the response is piped to the write stream and the promise
\* of its end is returned
ResponseArrives ==
  /\ download.pc = "request"
  /\ download' = [download EXCEPT !.pc = "writing"]
  /\ Unrelated

\* writer 'finish': resolve(true), whatever storage.syncFile did
WriterFinish ==
  /\ download.pc = "writing"
  /\ download' = [download EXCEPT !.pc = "returned", !.result = "true"]
  /\ Unrelated

\* writer 'error': reject(error) on a promise the try block returned without
\* awaiting it, so the catch block does not run
WriterError ==
  /\ download.pc = "writing"
  /\ download' = [download EXCEPT !.pc = "returned", !.result = "rejected"]
  /\ Unrelated

NextDownload ==
  \/ DownloadFile
  \/ AttemptFails
  \/ ResponseArrives
  \/ WriterFinish
  \/ WriterError

SpecDownload == InitDownload /\ [][NextDownload]_vars

(***************************************************************************)
(* Feedback while the storage of some Preference Entries fails: at most     *)
(* MaxFaults pairs at a time have a row that cannot be read or written.     *)
(***************************************************************************)
FaultPairs ==
  UNION {{<<e[1], e[2]>> : e \in
            {extractFeaturesFromVideo(mergeFrameFeatures(aweme_id))[i] :
               i \in DOMAIN extractFeaturesFromVideo(mergeFrameFeatures(aweme_id))}} :
         aweme_id \in Items}

\* The storage starts or stops failing on some rows of user_preferences
StorageFault(pairs) ==
  /\ pairs # failing
  /\ Cardinality(pairs) <= MaxFaults
  /\ failing' = pairs
  /\ last' = Last("storageFault", "", "", FALSE, RealZero, <<>>, <<>>, <<>>)
  /\ UNCHANGED <<video_features, video_vectors, user_preferences, user_profiles,
                 prefHistory, profileHistory, events, calls, download>>
  /\ UNCHANGED <<user_feedback, download_jobs, batch_download_jobs, processor>>

\* The embeddings are stored before the feedback starts, for every work or none
InitFail ==
  /\ video_features = EmptyTable
  /\ video_vectors \in {EmptyTable,
                         [aweme_id \in Items |-> generateEmbedding(aweme_id)]}
  /\ user_preferences = EmptyTable
  /\ user_profiles = EmptyTable
  /\ prefHistory = EmptyTable
  /\ profileHistory = [sum |-> <<>>, n |-> 0]
  /\ events = 0
  /\ last = Last("init", "", "", FALSE, RealZero, <<>>, <<>>, <<>>)
  /\ failing = {}
  /\ calls = <<>>
  /\ download = Downloader(Null)
  /\ user_feedback = <<>>
  /\ download_jobs = EmptyTable
  /\ batch_download_jobs = EmptyTable
  /\ processor = DownloadTaskProcessor

NextFail ==
  \/ \E aweme_id \in Items : SaveVideoFeatures(aweme_id)
  \/ \E aweme_id \in Items, feedbackType \in FeedbackTypes :
       ProcessFeedback(aweme_id, feedbackType)
  \/ \E pairs \in SUBSET FaultPairs : StorageFault(pairs)

SpecFail == InitFail /\ [][NextFail]_vars

(***************************************************************************)
(* Invocations of processFeedback in progress at the same time (overlapping *)
(* feedback requests): every await of an invocation is a point where the    *)
(* statements of another run.  Up to MaxCalls invocations, on works that    *)
(* are analysed and have an embedding.                                      *)
(***************************************************************************)
\* The stores are empty, or hold what one like of v2, processed alone, has left
InitRace ==
  /\ video_features = [aweme_id \in Items |->
                         [ai_features |-> mergeFrameFeatures(aweme_id)]]
  /\ video_vectors = [aweme_id \in Items |-> generateEmbedding(aweme_id)]
  /\ failing = {}
  /\ \E earlier \in BOOLEAN :
       LET empty == [user_preferences |-> EmptyTable, user_profiles |-> EmptyTable,
                     prefHistory |-> EmptyTable,
                     profileHistory |-> [sum |-> <<>>, n |-> 0]]
           st == IF earlier THEN processFeedback(empty, "v2", "like").st ELSE empty
       IN  /\ user_preferences = st.user_preferences
           /\ user_profiles = st.user_profiles
           /\ prefHistory = st.prefHistory
           /\ profileHistory = st.profileHistory
           /\ events = IF earlier THEN 1 ELSE 0
  /\ last = Last("init", "", "", FALSE, RealZero, <<>>, <<>>, <<>>)
  /\ calls = <<>>
  /\ download = Downloader(Null)
  /\ user_feedback = <<>>
  /\ download_jobs = EmptyTable
  /\ batch_download_jobs = EmptyTable
  /\ processor = DownloadTaskProcessor

\* Promise.all(updatePromises) has resolved: a like of a work with a vector goes
\* on to vectorStore.updateUserProfile, any other call returns true
afterUpdates(call) ==
  IF call.feedbackType = "like" /\ getVector(video_vectors, call.aweme_id) # Null
  THEN [call EXCEPT !.stage = "profileSelect"]
  ELSE [call EXCEPT !.stage = "returned", !.ret = "true"]

\* processFeedback up to await Promise.all(updatePromises): the features are read
\* and db.updateUserPreference is called for every pair, so the SELECT of every
\* pair is issued and none has run
startCall(aweme_id, feedbackType) ==
  LET videoFeatures == getVideoFeatures(video_features, aweme_id)
      call == [aweme_id |-> aweme_id, feedbackType |-> feedbackType,
               weight |-> IF feedbackType = "like" THEN likeWeight ELSE dislikeWeight,
               pairs |-> EmptyTable, stage |-> "updates", profileRow |-> Null,
               ret |-> "none"]
  IN  IF videoFeatures = Null
      THEN [call EXCEPT !.stage = "returned", !.ret = "false"]
      ELSE LET features == extractFeaturesFromVideo(videoFeatures[1].ai_features)
               keys == {<<features[i][1], features[i][2]>> : i \in DOMAIN features}
           IN  IF keys = {} THEN afterUpdates(call)
               ELSE [call EXCEPT
                       !.pairs = [k \in keys |-> [pc |-> "select", row |-> Null]]]

\* The call has made db.updateUserPreference(k[1], k[2], weight) for its pairs
RECURSIVE noteUpdates(_, _, _)
noteUpdates(hist, keys, weight) ==
  IF keys = {} THEN hist
  ELSE LET k == CHOOSE j \in keys : TRUE
       IN  noteUpdates(NoteUpdate(hist, k[1], k[2], weight), keys \ {k}, weight)

StartFeedback(aweme_id, feedbackType) ==
  /\ Len(calls) < MaxCalls
  /\ LET call == startCall(aweme_id, feedbackType)
     IN  /\ calls' = Append(calls, call)
         /\ prefHistory' = noteUpdates(prefHistory, DOMAIN call.pairs, call.weight)
  /\ events' = events + 1
  /\ UNCHANGED <<video_features, video_vectors, user_preferences, user_profiles,
                 profileHistory, last, failing, download>>
  /\ UNCHANGED <<user_feedback, download_jobs, batch_download_jobs, processor>>

\* The SELECT of updateUserPreference for the pair k of the call c runs
SelectRow(c, k) ==
  /\ calls[c].pairs[k].pc = "select"
  /\ calls' = [calls EXCEPT ![c].pairs[k] =
                 [pc |-> "write",
                  row |-> IF k \in DOMAIN user_preferences
                          THEN Some(user_preferences[k]) ELSE Null]]
  /\ UNCHANGED <<video_features, video_vectors, user_preferences, user_profiles,
                 prefHistory, profileHistory, events, last, failing, download>>
  /\ UNCHANGED <<user_feedback, download_jobs, batch_download_jobs, processor>>

\* The row that updateUserPreference writes for the pair k after its SELECT
\* returned row: the weighted average of that row, or a first row
rowWritten(row, k, weight) ==
  updateUserPreference(IF row = Null THEN EmptyTable ELSE (k :> row[1]),
                       k[1], k[2], weight)[k]

\* The callback of the SELECT runs the UPDATE of the row it was given, or the
\* INSERT of a first row, which UNIQUE(feature_key, feature_value) refuses when
\* the row exists by now; the call goes on when its last promise has resolved,
\* and returns false when one rejects
WriteRow(c, k) ==
  /\ calls[c].pairs[k].pc = "write"
  /\ LET call == calls[c]
         row == call.pairs[k].row
         refused == row = Null /\ k \in DOMAIN user_preferences
         written == [call EXCEPT !.pairs[k].pc = "done"]
         settled == \A j \in DOMAIN written.pairs : written.pairs[j].pc = "done"
     IN  /\ user_preferences' =
              IF refused THEN user_preferences
              ELSE (k :> rowWritten(row, k, call.weight)) @@ user_preferences
         /\ calls' = [calls EXCEPT ![c] =
              IF call.stage # "updates" THEN written
              ELSE IF refused
                   THEN [written EXCEPT !.stage = "returned", !.ret = "false"]
                   ELSE IF settled THEN afterUpdates(written) ELSE written]
  /\ UNCHANGED <<video_features, video_vectors, user_profiles, prefHistory,
                 profileHistory, events, last, failing, download>>
  /\ UNCHANGED <<user_feedback, download_jobs, batch_download_jobs, processor>>

\* vectorStore.updateUserProfile(videoVector): the SELECT of (vector, count)
ProfileSelect(c) ==
  /\ calls[c].stage = "profileSelect"
  /\ calls' = [calls EXCEPT ![c].stage = "profileWrite",
                            ![c].profileRow =
                               IF "default" \in DOMAIN user_profiles
                               THEN Some(user_profiles["default"]) ELSE Null]
  /\ profileHistory' = NoteProfile(profileHistory,
                                   getVector(video_vectors, calls[c].aweme_id)[1])
  /\ UNCHANGED <<video_features, video_vectors, user_preferences, user_profiles,
                 prefHistory, events, last, failing, download>>
  /\ UNCHANGED <<user_feedback, download_jobs, batch_download_jobs, processor>>

\* The callback of that SELECT: INSERT OR REPLACE of the mean computed from the
\* row it was given; processFeedback returns true
ProfileWrite(c) ==
  /\ calls[c].stage = "profileWrite"
  /\ LET row == calls[c].profileRow
         videoVector == getVector(video_vectors, calls[c].aweme_id)
     IN  user_profiles' =
           ("default" :>
              updateUserProfile(IF row = Null THEN EmptyTable
                                ELSE ("default" :> row[1]),
                                videoVector[1], "default")["default"])
           @@ user_profiles
  /\ calls' = [calls EXCEPT ![c].stage = "returned", ![c].ret = "true"]
  /\ UNCHANGED <<video_features, video_vectors, user_preferences, prefHistory,
                 profileHistory, events, last, failing, download>>
  /\ UNCHANGED <<user_feedback, download_jobs, batch_download_jobs, processor>>

NextRace ==
  \/ \E aweme_id \in Items, feedbackType \in FeedbackTypes :
       StartFeedback(aweme_id, feedbackType)
  \/ \E c \in DOMAIN calls : \E k \in DOMAIN calls[c].pairs : SelectRow(c, k)
  \/ \E c \in DOMAIN calls : \E k \in DOMAIN calls[c].pairs : WriteRow(c, k)
  \/ \E c \in DOMAIN calls : ProfileSelect(c)
  \/ \E c \in DOMAIN calls : ProfileWrite(c)

SpecRace == InitRace /\ [][NextRace]_vars

(***************************************************************************)
(* Feedback, scoring and statistics on the same stores.                     *)
(***************************************************************************)
GetUserPreferenceStats ==
  /\ last' = Last("getUserPreferenceStats", "", "", TRUE, RealZero, <<>>,
                  <<getUserPreferenceStats(user_preferences)>>, <<>>)
  /\ UNCHANGED <<video_features, video_vectors, user_preferences, user_profiles,
                 prefHistory, profileHistory, events>>
  /\ UNCHANGED <<failing, calls, download>>
  /\ UNCHANGED <<user_feedback, download_jobs, batch_download_jobs, processor>>

NextStats ==
  \/ \E aweme_id \in Items : SaveVideoFeatures(aweme_id)
  \/ \E aweme_id \in Items : SaveVector(aweme_id)
  \/ \E aweme_id \in Items, feedbackType \in FeedbackTypes :
       ProcessFeedback(aweme_id, feedbackType)
  \/ \E aweme_id \in Items : GetVideoRecommendationScore(aweme_id)
  \/ GetUserPreferenceStats

SpecStats == Init /\ [][NextStats]_vars

(***************************************************************************)
(* The HTTP feedback endpoints of WebUIServer, one request after another.   *)
(***************************************************************************)
\* for (const feedback of feedbacks) await db.saveUserFeedback(...)
RECURSIVE saveUserFeedbacks(_, _, _)
saveUserFeedbacks(rows, feedbacks, i) ==
  IF i > Len(feedbacks) THEN rows
  ELSE saveUserFeedbacks(
         Append(rows, <<feedbacks[i].aweme_id, feedbacks[i].feedback_type>>),
         feedbacks, i + 1)

\* POST /api/feedback: a request without token or date, with a wrong token or
\* without a list of feedbacks is refused; otherwise processBatchFeedback, then
\* the feedbacks are saved, and the results are sent
PostFeedback(refusal, feedbacks) ==
  /\ Len(user_feedback) + Len(feedbacks) <= MaxBatch
  /\ IF refusal # "none"
     THEN /\ last' = Last("POST /api/feedback", "", "", FALSE, RealZero,
                          feedbacks, <<>>, <<>>)
          /\ UNCHANGED <<user_preferences, user_profiles, prefHistory,
                         profileHistory, events, user_feedback>>
     ELSE LET r == processBatchFeedback(Stores, feedbacks)
          IN  /\ SetStores(r.st)
              /\ events' = events + Len(r.log)
              /\ user_feedback' = saveUserFeedbacks(user_feedback, feedbacks, 1)
              /\ last' = Last("POST /api/feedback", "", "", TRUE, RealZero,
                              feedbacks, r.results, r.log)
  /\ UNCHANGED <<video_features, video_vectors, failing, calls, download,
                 download_jobs, batch_download_jobs, processor>>

\* The loop of POST /api/feedback-unanalyzed from the i-th feedback on: the
\* feedback is saved, processFeedback is called when the work has features and
\* its result is dropped, and { aweme_id, success: true } is pushed
RECURSIVE unanalyzedLoop(_, _, _)
unanalyzedLoop(acc, feedbacks, i) ==
  IF i > Len(feedbacks) THEN acc
  ELSE LET aweme_id == feedbacks[i].aweme_id
           feedback_type == feedbacks[i].feedback_type
       IN  IF aweme_id = "" \/ feedback_type = ""
           THEN unanalyzedLoop(acc, feedbacks, i + 1)
           ELSE LET features == getVideoFeatures(video_features, aweme_id)
                    r == IF features # Null
                         THEN processFeedback(acc.st, aweme_id, feedback_type)
                         ELSE [st |-> acc.st, ret |-> FALSE]
                IN  unanalyzedLoop(
                      [st |-> r.st,
                       user_feedback |-> Append(acc.user_feedback,
                                                <<aweme_id, feedback_type>>),
                       results |-> Append(acc.results,
                                          [aweme_id |-> aweme_id, success |-> TRUE]),
                       log |-> IF features # Null
                               THEN Append(acc.log, <<aweme_id, feedback_type>>)
                               ELSE acc.log],
                      feedbacks, i + 1)

PostFeedbackUnanalyzed(refusal, feedbacks) ==
  /\ Len(user_feedback) + Len(feedbacks) <= MaxBatch
  /\ IF refusal # "none"
     THEN /\ last' = Last("POST /api/feedback-unanalyzed", "", "", FALSE, RealZero,
                          feedbacks, <<>>, <<>>)
          /\ UNCHANGED <<user_preferences, user_profiles, prefHistory,
                         profileHistory, events, user_feedback>>
     ELSE LET r == unanalyzedLoop([st |-> Stores, user_feedback |-> user_feedback,
                                   results |-> <<>>, log |-> <<>>], feedbacks, 1)
          IN  /\ SetStores(r.st)
              /\ events' = events + Len(r.log)
              /\ user_feedback' = r.user_feedback
              /\ last' = Last("POST /api/feedback-unanalyzed", "", "", TRUE,
                              RealZero, feedbacks, r.results, r.log)
  /\ UNCHANGED <<video_features, video_vectors, failing, calls, download,
                 download_jobs, batch_download_jobs, processor>>

NextHttp ==
  \/ \E aweme_id \in Items : SaveVideoFeatures(aweme_id)
  \/ \E aweme_id \in Items : SaveVector(aweme_id)
  \/ \E refusal \in {"none", "params", "token", "format"}, feedbacks \in Batches :
       PostFeedback(refusal, feedbacks)
  \/ \E refusal \in {"none", "format"}, feedbacks \in Batches :
       PostFeedbackUnanalyzed(refusal, feedbacks)

SpecHttp == Init /\ [][NextHttp]_vars

(***************************************************************************)
(* processFeedback with any feedback type that a request can carry.         *)
(***************************************************************************)
NextTypes ==
  \/ \E aweme_id \in Items : SaveVideoFeatures(aweme_id)
  \/ \E aweme_id \in Items : SaveVector(aweme_id)
  \/ \E aweme_id \in Items, feedbackType \in AnyFeedbackTypes :
       ProcessFeedback(aweme_id, feedbackType)

SpecTypes == Init /\ [][NextTypes]_vars

(***************************************************************************)
(* Likes on works whose stored embeddings have any dimension 1..MaxDim.     *)
(***************************************************************************)
DimVectors == {[i \in 1..n |-> RInt(i)] : n \in 1..MaxDim}

InitDims ==
  /\ video_features = [aweme_id \in Items |->
                         [ai_features |-> mergeFrameFeatures(aweme_id)]]
  /\ video_vectors \in [Items -> DimVectors]
  /\ user_preferences = EmptyTable
  /\ user_profiles = EmptyTable
  /\ prefHistory = EmptyTable
  /\ profileHistory = [sum |-> <<>>, n |-> 0]
  /\ events = 0
  /\ last = Last("init", "", "", FALSE, RealZero, <<>>, <<>>, <<>>)
  /\ failing = {}
  /\ calls = <<>>
  /\ download = Downloader(Null)
  /\ user_feedback = <<>>
  /\ download_jobs = EmptyTable
  /\ batch_download_jobs = EmptyTable
  /\ processor = DownloadTaskProcessor

NextDims ==
  \E aweme_id \in Items, feedbackType \in FeedbackTypes :
    ProcessFeedback(aweme_id, feedbackType)

SpecDims == InitDims /\ [][NextDims]_vars

(***************************************************************************)
(* Download jobs: POST /api/download creates a job and calls processJob,    *)
(* the timer of DownloadTaskProcessor.start calls processPendingJobs; every *)
(* await is a point where the other may run.  Up to MaxJobs jobs.           *)
(***************************************************************************)
Preferences ==
  UNCHANGED <<video_features, video_vectors, user_preferences, user_profiles,
              prefHistory, profileHistory, events, failing, calls, download,
              user_feedback>>

\* finally { this.isProcessing = false } of the pass that awaited the run
endPass(proc, owner) ==
  IF owner = "pass" THEN [proc EXCEPT !.isProcessing = FALSE, !.pass = "idle"]
  ELSE proc

\* POST /api/download: 400 without aweme_id; otherwise the job is created as
\* pending, and either marked completed with the download_url given or handed
\* to processJob, which is not awaited
PostDownload(aweme_id, download_url) ==
  /\ Cardinality(DOMAIN download_jobs) < MaxJobs
  /\ IF aweme_id = ""
     THEN /\ last' = Last("POST /api/download", "", "", FALSE, RealZero,
                          <<>>, <<>>, <<>>)
          /\ UNCHANGED <<download_jobs, processor>>
     ELSE LET jobId == Cardinality(DOMAIN download_jobs) + 1
          IN  /\ download_jobs' = (jobId :> [status |-> "pending"]) @@ download_jobs
              /\ processor' = [processor EXCEPT !.runs =
                     Append(@, Run(IF download_url THEN "url" ELSE "job", jobId,
                                   "request"))]
              /\ last' = Last("POST /api/download", aweme_id, "", TRUE, RealZero,
                              <<>>, <<jobId>>, <<>>)
  /\ UNCHANGED batch_download_jobs
  /\ Preferences

\* await db.updateDownloadJobStatus(jobId, 'completed', download_url) of the
\* request that brought its download_url
CompleteWithUrl(r) ==
  /\ processor.runs[r].kind = "url"
  /\ processor.runs[r].pc = "get"
  /\ download_jobs' = [download_jobs EXCEPT ![processor.runs[r].job_id].status =
                         "completed"]
  /\ processor' = [processor EXCEPT !.runs[r].pc = "done"]
  /\ UNCHANGED <<batch_download_jobs, last>>
  /\ Preferences

\* processJob: job = await db.getDownloadJob(jobId); return if the job is
\* completed or failed
GetDownloadJob(r) ==
  /\ processor.runs[r].kind = "job"
  /\ processor.runs[r].pc = "get"
  /\ LET run == processor.runs[r]
         job == download_jobs[run.job_id]
     IN  processor' =
           IF job.status \in {"completed", "failed"}
           THEN endPass([processor EXCEPT !.runs[r].pc = "done"], run.owner)
           ELSE [processor EXCEPT !.runs[r].pc = "mark"]
  /\ UNCHANGED <<download_jobs, batch_download_jobs, last>>
  /\ Preferences

\* processJob: await db.updateDownloadJobStatus(jobId, 'processing')
MarkProcessing(r) ==
  /\ processor.runs[r].kind = "job"
  /\ processor.runs[r].pc = "mark"
  /\ download_jobs' = [download_jobs EXCEPT ![processor.runs[r].job_id].status =
                         "processing"]
  /\ processor' = [processor EXCEPT !.runs[r].pc = "download"]
  /\ UNCHANGED <<batch_download_jobs, last>>
  /\ Preferences

\* processJob: the work is looked up (an Error is thrown when it is unknown) and
\* downloader.processItem is awaited: it returns true or false, or throws
ProcessItem(r, outcome) ==
  /\ processor.runs[r].kind = "job"
  /\ processor.runs[r].pc = "download"
  /\ processor' = [processor EXCEPT
                     !.runs[r].pc = "finish",
                     !.runs[r].success = outcome,
                     !.processItem = IF outcome = "unknown" THEN @
                                     ELSE NoteProcessItem(@, processor.runs[r].job_id)]
  /\ UNCHANGED <<download_jobs, batch_download_jobs, last>>
  /\ Preferences

\* processJob: await db.updateDownloadJobStatus(jobId, 'completed', downloadUrl)
\* after a download that returned true, (jobId, 'failed', ...) otherwise
FinishJob(r) ==
  /\ processor.runs[r].kind = "job"
  /\ processor.runs[r].pc = "finish"
  /\ LET run == processor.runs[r]
     IN  /\ download_jobs' = [download_jobs EXCEPT ![run.job_id].status =
                                IF run.success = "true" THEN "completed"
                                ELSE "failed"]
         /\ processor' = endPass([processor EXCEPT !.runs[r].pc = "done"],
                                 run.owner)
  /\ UNCHANGED <<batch_download_jobs, last>>
  /\ Preferences

\* A pass that begins whether or not another one is running
processPendingJobs_Unguarded(proc) ==
  [proc EXCEPT !.isProcessing = TRUE, !.pass = "batch", !.tick = "started"]

\* processPendingJobs up to its first await: nothing when a pass is running,
\* otherwise isProcessing = true
processPendingJobs(proc) ==
  IF proc.isProcessing THEN [proc EXCEPT !.tick = "skipped"]
  ELSE [proc EXCEPT !.isProcessing = TRUE, !.pass = "batch", !.tick = "started"]

\* start(): nothing when the timer is set; otherwise one pass at once, and the
\* timer
Start ==
  /\ ~processor.processingInterval
  /\ processor' = [processPendingJobs(processor) EXCEPT !.processingInterval = TRUE]
  /\ UNCHANGED <<download_jobs, batch_download_jobs, last>>
  /\ Preferences

\* The timer fires
Tick ==
  /\ processor.processingInterval
  /\ processor' = processPendingJobs(processor)
  /\ UNCHANGED <<download_jobs, batch_download_jobs, last>>
  /\ Preferences

\* pendingBatchJobs = await db.getPendingBatchDownloadJobs(1): the oldest
\* pending batch job is handed to processBatchJob, which is awaited
PassSelectBatch ==
  /\ processor.pass = "batch"
  /\ processor' =
       IF Pending(batch_download_jobs) # {}
       THEN [processor EXCEPT
               !.pass = "running",
               !.runs = Append(@, Run("batch", OldestPending(batch_download_jobs),
                                      "pass"))]
       ELSE [processor EXCEPT !.pass = "jobs"]
  /\ UNCHANGED <<download_jobs, batch_download_jobs, last>>
  /\ Preferences

\* pendingJobs = await db.getPendingDownloadJobs(1): the oldest pending job is
\* handed to processJob, which is awaited; without one the pass ends
PassSelectJob ==
  /\ processor.pass = "jobs"
  /\ processor' =
       IF Pending(download_jobs) # {}
       THEN [processor EXCEPT
               !.pass = "running",
               !.runs = Append(@, Run("job", OldestPending(download_jobs), "pass"))]
       ELSE endPass(processor, "pass")
  /\ UNCHANGED <<download_jobs, batch_download_jobs, last>>
  /\ Preferences

\* One of the two reads of the pass rejects: catch, then finally
PassThrows ==
  /\ processor.pass \in {"batch", "jobs"}
  /\ processor' = endPass(processor, "pass")
  /\ UNCHANGED <<download_jobs, batch_download_jobs, last>>
  /\ Preferences

NextJobs ==
  \/ \E aweme_id \in Items \cup {""}, download_url \in BOOLEAN :
       PostDownload(aweme_id, download_url)
  \/ \E r \in DOMAIN processor.runs : CompleteWithUrl(r)
  \/ \E r \in DOMAIN processor.runs : GetDownloadJob(r)
  \/ \E r \in DOMAIN processor.runs : MarkProcessing(r)
  \/ \E r \in DOMAIN processor.runs,
         outcome \in {"unknown", "true", "false", "threw"} : ProcessItem(r, outcome)
  \/ \E r \in DOMAIN processor.runs : FinishJob(r)
  \/ Start
  \/ Tick
  \/ PassSelectBatch
  \/ PassSelectJob
  \/ PassThrows

SpecJobs == Init /\ [][NextJobs]_vars

(***************************************************************************)
(* Batch download jobs: POST /api/videos/download-batch creates a job and   *)
(* calls processBatchJob, and a pass of processPendingJobs picks the oldest *)
(* pending one.  A write of updateBatchDownloadJobStatus may reject, up to  *)
(* MaxFaults times; lists of up to MaxAwemeIds works, MaxBatchJobs jobs.    *)
(***************************************************************************)
AwemeIdLists == UNION {[1..n -> {"v1", "v2"}] : n \in 1..MaxAwemeIds}

\* db.updateBatchDownloadJobStatus: the status is always written, each of the
\* other columns only when its argument is not null
updateBatchDownloadJobStatus(jobs, jobId, status, completedCount, failedCount, downloadUrls) ==
  [jobs EXCEPT ![jobId] =
     [@ EXCEPT !.status = status,
               !.completed_count = IF completedCount = Null THEN @
                                   ELSE completedCount[1],
               !.failed_count = IF failedCount = Null THEN @ ELSE failedCount[1],
               !.download_urls = IF downloadUrls = Null THEN @
                                 ELSE downloadUrls[1]]]

\* The write of a run with its counters and links, under the status given
writeCounts(run, status) ==
  updateBatchDownloadJobStatus(batch_download_jobs, run.job_id, status,
                               Some(run.completedCount), Some(run.failedCount),
                               Some(run.downloadUrls))

\* A write that rejects leaves the row alone; the rejections are counted
Rejects(ok) == ~ok /\ processor.rejected < MaxFaults
noteRejected(proc, ok) == IF ok THEN proc ELSE [proc EXCEPT !.rejected = @ + 1]

\* The run goes on with the next aweme_id of the for loop, or leaves the loop
nextItem(run) ==
  [run EXCEPT !.next = @ + 1,
              !.pc = IF run.next + 1 > Len(run.aweme_ids) THEN "complete"
                     ELSE "item"]

\* POST /api/videos/download-batch: 400 unless aweme_ids is a non-empty array;
\* otherwise the job is created as pending with total_count = aweme_ids.length
\* and handed to processBatchJob, which is not awaited
PostDownloadBatch(aweme_ids) ==
  /\ Cardinality(DOMAIN batch_download_jobs) < MaxBatchJobs
  /\ IF aweme_ids = <<>>
     THEN /\ last' = Last("POST /api/videos/download-batch", "", "", FALSE,
                          RealZero, <<>>, <<>>, <<>>)
          /\ UNCHANGED <<batch_download_jobs, processor>>
     ELSE LET jobId == Cardinality(DOMAIN batch_download_jobs) + 1
          IN  /\ batch_download_jobs' =
                   (jobId :> [status |-> "pending", aweme_ids |-> aweme_ids,
                              total_count |-> Len(aweme_ids),
                              completed_count |-> 0, failed_count |-> 0,
                              download_urls |-> <<>>]) @@ batch_download_jobs
              /\ processor' = [processor EXCEPT !.runs =
                                 Append(@, Run("batch", jobId, "request"))]
              /\ last' = Last("POST /api/videos/download-batch", "", "", TRUE,
                              RealZero, <<>>, <<jobId>>, <<>>)
  /\ UNCHANGED download_jobs
  /\ Preferences

\* processBatchJob: job = await db.getBatchDownloadJob(jobId); return if the
\* job is completed or failed
GetBatchDownloadJob(r) ==
  /\ processor.runs[r].kind = "batch"
  /\ processor.runs[r].pc = "get"
  /\ LET run == processor.runs[r]
         job == batch_download_jobs[run.job_id]
     IN  processor' =
           IF job.status \in {"completed", "failed"}
           THEN endPass([processor EXCEPT !.runs[r].pc = "done"], run.owner)
           ELSE [processor EXCEPT !.runs[r].pc = "mark",
                                  !.runs[r].aweme_ids = job.aweme_ids]
  /\ UNCHANGED <<download_jobs, batch_download_jobs, last>>
  /\ Preferences

\* processBatchJob: await db.updateBatchDownloadJobStatus(jobId, 'processing',
\* 0, 0); a rejection goes to the outer catch
MarkBatchProcessing(r, ok) ==
  /\ processor.runs[r].kind = "batch"
  /\ processor.runs[r].pc = "mark"
  /\ ok \/ Rejects(ok)
  /\ batch_download_jobs' =
       IF ok THEN updateBatchDownloadJobStatus(batch_download_jobs,
                    processor.runs[r].job_id, "processing", Some(0), Some(0), Null)
       ELSE batch_download_jobs
  /\ processor' = noteRejected(
       [processor EXCEPT !.runs[r].pc = IF ok THEN "item" ELSE "fail"], ok)
  /\ UNCHANGED <<download_jobs, last>>
  /\ Preferences

\* One turn of the for loop up to its write: the work is unknown (failedCount++
\* and continue, with no write), or processItem returns true and a file is
\* found (a link is pushed, completedCount++), or returns true without a file
\* or false (failedCount++), or something throws (the inner catch: failedCount++)
HandleItem(r, outcome) ==
  /\ processor.runs[r].kind = "batch"
  /\ processor.runs[r].pc = "item"
  /\ LET run == processor.runs[r]
         awemeId == run.aweme_ids[run.next]
         failed == [run EXCEPT !.failedCount = @ + 1]
     IN  processor' = [processor EXCEPT !.runs[r] =
           CASE outcome = "unknown" -> nextItem(failed)
             [] outcome = "url" ->
                  [run EXCEPT !.downloadUrls = Append(@, awemeId),
                              !.completedCount = @ + 1, !.pc = "progress"]
             [] outcome \in {"nourl", "false"} -> [failed EXCEPT !.pc = "progress"]
             [] outcome = "threw" -> [failed EXCEPT !.pc = "catch"]]
  /\ UNCHANGED <<download_jobs, batch_download_jobs, last>>
  /\ Preferences

\* The progress write that ends the try block of the turn; when it rejects, the
\* inner catch runs: failedCount++
WriteProgress(r, ok) ==
  /\ processor.runs[r].kind = "batch"
  /\ processor.runs[r].pc = "progress"
  /\ ok \/ Rejects(ok)
  /\ LET run == processor.runs[r]
     IN  /\ batch_download_jobs' =
              IF ok THEN writeCounts(run, "processing") ELSE batch_download_jobs
         /\ processor' = noteRejected([processor EXCEPT !.runs[r] =
              IF ok THEN nextItem(run)
              ELSE [run EXCEPT !.failedCount = @ + 1, !.pc = "catch"]], ok)
  /\ UNCHANGED <<download_jobs, last>>
  /\ Preferences

\* The progress write of the inner catch; when it rejects, the outer catch runs
WriteProgressInCatch(r, ok) ==
  /\ processor.runs[r].kind = "batch"
  /\ processor.runs[r].pc = "catch"
  /\ ok \/ Rejects(ok)
  /\ LET run == processor.runs[r]
     IN  /\ batch_download_jobs' =
              IF ok THEN writeCounts(run, "processing") ELSE batch_download_jobs
         /\ processor' = noteRejected([processor EXCEPT !.runs[r] =
              IF ok THEN nextItem(run) ELSE [run EXCEPT !.pc = "fail"]], ok)
  /\ UNCHANGED <<download_jobs, last>>
  /\ Preferences

\* After the loop: await db.updateBatchDownloadJobStatus(jobId, 'completed',
\* completedCount, failedCount, downloadUrls)
CompleteBatch(r, ok) ==
  /\ processor.runs[r].kind = "batch"
  /\ processor.runs[r].pc = "complete"
  /\ ok \/ Rejects(ok)
  /\ LET run == processor.runs[r]
     IN  /\ batch_download_jobs' =
              IF ok THEN writeCounts(run, "completed") ELSE batch_download_jobs
         /\ processor' = noteRejected(
              IF ok THEN endPass([processor EXCEPT !.runs[r].pc = "done"], run.owner)
              ELSE [processor EXCEPT !.runs[r].pc = "fail"], ok)
  /\ UNCHANGED <<download_jobs, last>>
  /\ Preferences

\* The outer catch: await db.updateBatchDownloadJobStatus(jobId, 'failed', null,
\* null, null, error.message)
FailBatch(r) ==
  /\ processor.runs[r].kind = "batch"
  /\ processor.runs[r].pc = "fail"
  /\ LET run == processor.runs[r]
     IN  /\ batch_download_jobs' =
              updateBatchDownloadJobStatus(batch_download_jobs, run.job_id,
                                           "failed", Null, Null, Null)
         /\ processor' = endPass([processor EXCEPT !.runs[r].pc = "done"],
                                 run.owner)
  /\ UNCHANGED <<download_jobs, last>>
  /\ Preferences

NextBatchJobs ==
  \/ \E aweme_ids \in AwemeIdLists \cup {<<>>} : PostDownloadBatch(aweme_ids)
  \/ \E r \in DOMAIN processor.runs : GetBatchDownloadJob(r)
  \/ \E r \in DOMAIN processor.runs, ok \in BOOLEAN : MarkBatchProcessing(r, ok)
  \/ \E r \in DOMAIN processor.runs,
         outcome \in {"unknown", "url", "nourl", "false", "threw"} :
       HandleItem(r, outcome)
  \/ \E r \in DOMAIN processor.runs, ok \in BOOLEAN : WriteProgress(r, ok)
  \/ \E r \in DOMAIN processor.runs, ok \in BOOLEAN : WriteProgressInCatch(r, ok)
  \/ \E r \in DOMAIN processor.runs, ok \in BOOLEAN : CompleteBatch(r, ok)
  \/ \E r \in DOMAIN processor.runs : FailBatch(r)
  \/ Start
  \/ Tick
  \/ PassSelectBatch
  \/ PassSelectJob
  \/ PassThrows

SpecBatchJobs == Init /\ [][NextBatchJobs]_vars

(***************************************************************************)
(* The claims.  The attribute mapping of a work and the feedback step that *)
(* the claims speak of are stated here independently of the operators      *)
(* above.                                                                  *)
(***************************************************************************)
Range(seq) == {seq[i] : i \in DOMAIN seq}

\* The attribute mapping of a Content Item: scene_type, color_*, style_*, tag_*
AttributePairs(ai) ==
  {<<"scene_type", v>> : v \in {ai.primary_scene_type} \ {""}}
    \cup {<<"color_" \o c, c>> : c \in Range(ai.primary_colors)}
    \cup {<<"style_" \o x, x>> : x \in Range(ai.primary_styles)}
    \cup {<<"tag_" \o t, t>> : t \in Range(ai.top_tags)}

HasAttributes(aweme_id) == aweme_id \in DOMAIN video_features
HasEmbedding(aweme_id) == aweme_id \in DOMAIN video_vectors
HasProfile == "default" \in DOMAIN user_profiles

Attributes(aweme_id) ==
  IF HasAttributes(aweme_id)
  THEN AttributePairs(video_features[aweme_id].ai_features)
  ELSE {}

\* This step is one call processFeedback(aweme_id, feedbackType)
FeedbackStep == last'.op = "processFeedback" /\ events' = events + 1

SampleCount(prefs, k) == IF k \in DOMAIN prefs THEN prefs[k].sample_count ELSE 0

\* This step applied the weight w once to the Preference Entry of the pair k
AppliedOnce(k, w) ==
  /\ k \in DOMAIN user_preferences'
  /\ IF k \in DOMAIN user_preferences
     THEN /\ user_preferences'[k].sample_count = user_preferences[k].sample_count + 1
          /\ RMul(user_preferences'[k].preference_score,
                  RInt(user_preferences'[k].sample_count))
               = RAdd(RMul(user_preferences[k].preference_score,
                           RInt(user_preferences[k].sample_count)),
                      RInt(w))
     ELSE user_preferences'[k] = [preference_score |-> RInt(w), sample_count |-> 1]

\* C1: after n feedback events, executed one after another, that touched the
\* pair (k, v) with the weights w_1..w_n, the Preference Entry of (k, v) has
\* sample_count = n and score = (w_1 + ... + w_n) / n; an entry exists exactly for
\* the pairs touched, so the first event creates it with score w_1 and count 1.
C1_RunningMean ==
  /\ DOMAIN user_preferences = DOMAIN prefHistory
  /\ \A k \in DOMAIN prefHistory :
       /\ user_preferences[k].sample_count = prefHistory[k].n
       /\ user_preferences[k].preference_score
            = RNorm(prefHistory[k].sum, prefHistory[k].n)

\* Three events with the weights +1, +1, -1 in some order have touched a pair
C1_Witness ==
  \E k \in DOMAIN user_preferences :
    /\ prefHistory[k].n = 3
    /\ prefHistory[k].sum = 1
    /\ user_preferences[k].preference_score = <<1, 3>>

\* C2: after n likes, executed one after another, that folded the embeddings
\* v_1..v_n into the profile of user "default", the profile has count = n and
\* vector[i] = (v_1[i] + ... + v_n[i]) / n for every coordinate i; there is no
\* profile before the first, which sets vector = v_1 and count = 1.
C2_ProfileMean ==
  IF profileHistory.n = 0
  THEN ~HasProfile
  ELSE /\ HasProfile
       /\ user_profiles["default"].count = profileHistory.n
       /\ DOMAIN user_profiles["default"].vector = DOMAIN profileHistory.sum
       /\ \A i \in DOMAIN profileHistory.sum :
            user_profiles["default"].vector[i]
              = RDiv(profileHistory.sum[i], RInt(profileHistory.n))

\* Three likes, on v1, v2 and v3 in some order, have been folded in
C2_Witness ==
  /\ profileHistory.n = 3
  /\ profileHistory.sum = <<RInt(1), RInt(1)>>
  /\ user_profiles["default"].vector = <<<<1, 3>>, <<1, 3>>>>

\* C3: processFeedback on a work that has no stored attributes returns false and
\* changes no Preference Entry and not the user profile, for like and for dislike,
\* with or without a stored embedding of the work.
C3_UnanalyzedNoChange ==
  [][(FeedbackStep /\ ~HasAttributes(last'.aweme_id))
       => /\ last'.ret = FALSE
          /\ user_preferences' = user_preferences
          /\ user_profiles' = user_profiles]_vars

\* A like on a work that has an embedding and no attributes has returned false,
\* with Preference Entries and a profile in the stores
C3_Witness ==
  /\ last.op = "processFeedback"
  /\ last.feedbackType = "like"
  /\ ~HasAttributes(last.aweme_id)
  /\ HasEmbedding(last.aweme_id)
  /\ last.ret = FALSE
  /\ HasProfile
  /\ user_preferences # EmptyTable

\* C4: a feedback event on a work changes the Preference Entries of the pairs of
\* the work's attribute mapping, each exactly once (sample_count + 1), and no
\* other: the entry of every other pair keeps its score and sample_count.
C4_OnlyItsPairs ==
  [][FeedbackStep
       => /\ DOMAIN user_preferences'
               = DOMAIN user_preferences \cup Attributes(last'.aweme_id)
          /\ \A k \in DOMAIN user_preferences' :
               IF k \in Attributes(last'.aweme_id)
               THEN user_preferences'[k].sample_count
                      = SampleCount(user_preferences, k) + 1
               ELSE user_preferences'[k] = user_preferences[k]]_vars

\* A feedback on a work has been applied while the store holds the entry of a
\* pair of the same key that the work does not have, and an entry it has touched
\* before
C4_Witness ==
  /\ last.op = "processFeedback"
  /\ last.ret = TRUE
  /\ \E k \in Attributes(last.aweme_id), j \in DOMAIN user_preferences :
       /\ j \notin Attributes(last.aweme_id)
       /\ j[1] = k[1]
       /\ user_preferences[k].sample_count >= 2

\* C5: processFeedback changes the user profile only for a like on a work that
\* has stored attributes and a stored embedding; a dislike never creates or
\* changes it.
C5_ProfileOnlyOnLike ==
  [][(FeedbackStep /\ user_profiles' # user_profiles)
       => /\ last'.feedbackType = "like"
          /\ HasAttributes(last'.aweme_id)
          /\ HasEmbedding(last'.aweme_id)]_vars

\* A dislike on a work that has attributes and an embedding has been processed
\* while a profile exists
C5_Witness ==
  /\ last.op = "processFeedback"
  /\ last.feedbackType = "dislike"
  /\ last.ret = TRUE
  /\ HasEmbedding(last.aweme_id)
  /\ HasProfile

\* C6: a like on a work that has stored attributes and no stored embedding
\* returns true, applies likeWeight once to every pair of the work's attribute
\* mapping and leaves the user profile unchanged; processFeedback on a work that
\* has attributes returns true whether or not the profile update ran.
C6_LikeWithoutEmbedding ==
  [][(FeedbackStep /\ HasAttributes(last'.aweme_id))
       => /\ last'.ret = TRUE
          /\ (last'.feedbackType = "like" /\ ~HasEmbedding(last'.aweme_id))
               => /\ user_profiles' = user_profiles
                  /\ \A k \in Attributes(last'.aweme_id) : AppliedOnce(k, likeWeight)]_vars

\* A like on a work with attributes and no embedding has returned true while a
\* profile exists
C6_Witness ==
  /\ last.op = "processFeedback"
  /\ last.feedbackType = "like"
  /\ HasAttributes(last.aweme_id)
  /\ ~HasEmbedding(last.aweme_id)
  /\ last.ret = TRUE
  /\ HasProfile
  /\ \E k \in Attributes(last.aweme_id) : user_preferences[k].sample_count >= 2

\* This step is one call processBatchFeedback(feedbacks)
BatchStep == last'.op = "processBatchFeedback" /\ events' = events + Len(last'.feedbacks)

\* The feedbacks of a batch that are processed with success and touch the pair k
Touching(feedbacks, k) ==
  {i \in DOMAIN feedbacks : k \in Attributes(feedbacks[i].aweme_id)}

\* The feedbacks of a batch that fold an embedding into the profile
Folding(feedbacks) ==
  {i \in DOMAIN feedbacks : /\ feedbacks[i].feedback_type = "like"
                            /\ HasAttributes(feedbacks[i].aweme_id)
                            /\ HasEmbedding(feedbacks[i].aweme_id)}

\* C7: processBatchFeedback invokes processFeedback on its events in input order
\* and returns one result per event, in input order, whose success flag is that
\* event's own result (true exactly when the work has stored attributes); every
\* event is applied, also the events after one that failed: each Preference Entry
\* is updated once per event that touches it and the profile once per like that
\* has an embedding.
C7_BatchInOrder ==
  [][BatchStep
       => LET feedbacks == last'.feedbacks
              results == last'.results
          IN  /\ Len(results) = Len(feedbacks)
              /\ \A i \in DOMAIN feedbacks :
                   results[i] = [aweme_id |-> feedbacks[i].aweme_id,
                                 feedback_type |-> feedbacks[i].feedback_type,
                                 success |-> HasAttributes(feedbacks[i].aweme_id)]
              /\ last'.log = [i \in DOMAIN feedbacks |->
                                <<feedbacks[i].aweme_id, feedbacks[i].feedback_type>>]
              /\ \A k \in DOMAIN user_preferences' :
                   user_preferences'[k].sample_count
                     = SampleCount(user_preferences, k)
                         + Cardinality(Touching(feedbacks, k))
              /\ (IF "default" \in DOMAIN user_profiles'
                  THEN user_profiles'["default"].count ELSE 0)
                   = (IF HasProfile THEN user_profiles["default"].count ELSE 0)
                       + Cardinality(Folding(feedbacks))]_vars

\* A batch of two events has been processed whose first event failed and whose
\* second event, a like, was applied to the Preference Model and to the profile
C7_Witness ==
  /\ last.op = "processBatchFeedback"
  /\ Len(last.feedbacks) = 2
  /\ last.results[1].success = FALSE
  /\ last.results[2].success = TRUE
  /\ last.feedbacks[2].feedback_type = "like"
  /\ HasEmbedding(last.feedbacks[2].aweme_id)
  /\ HasProfile
  /\ user_preferences # EmptyTable

\* matchScore(attributes) of the Preference Model: the mean, over the pairs of the
\* attribute mapping that have a Preference Entry with score > 0, of
\* score * ln(sample_count + 1); 0 when there is none
Contributing(attributes, prefs) ==
  {k \in attributes \cap DOMAIN prefs : RLess(RInt(0), prefs[k].preference_score)}

RECURSIVE WeightedSum(_, _)
WeightedSum(keys, prefs) ==
  IF keys = {} THEN RealZero
  ELSE LET k == CHOOSE x \in keys : TRUE
       IN  RealAdd(RealScale(prefs[k].preference_score,
                             MathLog(prefs[k].sample_count + 1)),
                   WeightedSum(keys \ {k}, prefs))

MatchScore(attributes, prefs) ==
  LET matched == Contributing(attributes, prefs)
  IN  IF matched = {} THEN RealZero
      ELSE RealScale(<<1, Cardinality(matched)>>, WeightedSum(matched, prefs))

\* tagScore * (1 - vectorWeight) + (similarity + 1) * 5 * vectorWeight
Blended(tagScore, similarity) ==
  RealAdd(RealScale(RAdd(RInt(1), RMul(RInt(-1), vectorWeight)), tagScore),
          RealScale(RMul(RInt(5), vectorWeight),
                    RealAdd(similarity, RealOfRat(RInt(1)))))

\* The last operation was score(aweme_id)
Scored == last.op = "getVideoRecommendationScore"

\* The similarity of the profile vector and the embedding of a work that has one
Similarity(aweme_id) ==
  cosineSimilarity(user_profiles["default"].vector, video_vectors[aweme_id])

C9_FallbackIsMatchScore ==
  (Scored /\ HasAttributes(last.aweme_id)
     /\ (~HasEmbedding(last.aweme_id) \/ ~HasProfile))
    => last.score = MatchScore(Attributes(last.aweme_id), user_preferences)

\* What holds of the code in the case of C9: the score is the tag score that
\* db.calculateVideoPreferenceScore returns, with no vector term
C9_TagScoreUnblended ==
  (Scored /\ (~HasEmbedding(last.aweme_id) \/ ~HasProfile))
    => last.score = calculateVideoPreferenceScore(last.aweme_id)

\* C10: when the work has stored attributes and a stored embedding and a user
\* profile exists, score(item_id) = tagScore * (1 - vectorWeight)
\* + (similarity + 1) * 5 * vectorWeight for every similarity, 0 included.
C10_BlendedScore ==
  (Scored /\ HasAttributes(last.aweme_id) /\ HasEmbedding(last.aweme_id) /\ HasProfile)
    => last.score = Blended(calculateVideoPreferenceScore(last.aweme_id),
                            Similarity(last.aweme_id))

\* What holds of the code in the case of C10: the blend when the similarity is
\* not 0, the tag score alone when it is 0
C10_BlendedUnlessZero ==
  (Scored /\ HasEmbedding(last.aweme_id) /\ HasProfile)
    => last.score = IF Similarity(last.aweme_id) = RealZero
                    THEN calculateVideoPreferenceScore(last.aweme_id)
                    ELSE Blended(calculateVideoPreferenceScore(last.aweme_id),
                                 Similarity(last.aweme_id))

\* The stores of the end-to-end scenario: after the like on v1 (Scenario A) and
\* after the following dislike on v2 (Scenario B)
ScenarioA ==
  (<<"scene_type", "indoor">> :> [preference_score |-> RInt(1), sample_count |-> 1])
    @@ (<<"tag_cat", "cat">> :> [preference_score |-> RInt(1), sample_count |-> 1])
ScenarioB ==
  (<<"scene_type", "indoor">> :> [preference_score |-> RInt(0), sample_count |-> 2])
    @@ (<<"tag_cat", "cat">> :> [preference_score |-> RInt(1), sample_count |-> 1])
ScenarioProfile == ("default" :> [vector |-> <<RInt(1), RInt(0)>>, count |-> 1])

\* C11: on fresh stores a like on v1 (attributes {scene_type: indoor, tag_cat:
\* cat}, embedding [1,0]) gives the entries (scene_type,indoor) = (1, 1),
\* (tag_cat,cat) = (1, 1) and the profile [1,0] with count 1; a following dislike
\* on v2 (attributes {scene_type: indoor}, no embedding) gives (scene_type,indoor)
\* = (0, 2) and leaves the profile; after that the score of v2, once it has the
\* embedding [1,0], is 7.
C11_Scenario ==
  [][/\ (/\ FeedbackStep
          /\ user_preferences = EmptyTable /\ user_profiles = EmptyTable
          /\ last'.aweme_id = "v1" /\ last'.feedbackType = "like"
          /\ HasAttributes("v1") /\ HasEmbedding("v1"))
         => (user_preferences' = ScenarioA /\ user_profiles' = ScenarioProfile)
     /\ (/\ FeedbackStep
          /\ user_preferences = ScenarioA /\ user_profiles = ScenarioProfile
          /\ last'.aweme_id = "v2" /\ last'.feedbackType = "dislike"
          /\ HasAttributes("v2") /\ ~HasEmbedding("v2"))
         => (user_preferences' = ScenarioB /\ user_profiles' = ScenarioProfile)
     /\ (/\ last'.op = "getVideoRecommendationScore" /\ last'.aweme_id = "v2"
          /\ user_preferences = ScenarioB /\ user_profiles = ScenarioProfile
          /\ HasAttributes("v2") /\ HasEmbedding("v2"))
         => last'.score = RealOfRat(RInt(7))]_vars

\* The scenario has run to its end: two events, the stores of Scenario B, and the
\* score of v2 with its embedding
C11_Witness ==
  /\ Scored /\ last.aweme_id = "v2"
  /\ events = 2
  /\ user_preferences = ScenarioB /\ user_profiles = ScenarioProfile
  /\ HasEmbedding("v2")
  /\ last.score = RealOfRat(RInt(7))

\* C12: matchScore of a work's attribute mapping is the mean, over the Preference
\* Entries that match one of its pairs and have score > 0, of score *
\* ln(sample_count + 1): an entry with score <= 0 adds neither to the sum nor to
\* the count m, and the result is 0 when m = 0.  The tag score that
\* db.calculateVideoPreferenceScore computes for a work is that value.
C12_PositiveMatchesOnly ==
  \A aweme_id \in Items :
    HasAttributes(aweme_id)
      => calculateVideoPreferenceScore(aweme_id)
           = MatchScore(Attributes(aweme_id), user_preferences)

\* What holds of the code in the case of C12: no stored entry matches a property
\* of ai_features, and the tag score of every work is 0
C12_TagScoreIsZero ==
  \A aweme_id \in Items : calculateVideoPreferenceScore(aweme_id) = RealZero

\* The tag score computed from the rows of user_preferences visited in the
\* given order
ScoreOfRows(rows, aiFeatures) ==
  LET sums == forEachPref([totalScore |-> RealZero, matchCount |-> 0],
                          rows, aiFeatures, 1)
  IN  IF sums.matchCount > 0
      THEN RealScale(<<1, sums.matchCount>>, sums.totalScore)
      ELSE RealZero

Reorderings(rows) ==
  {[i \in DOMAIN rows |-> rows[f[i]]] : f \in Permutations(DOMAIN rows)}

\* C13: for every preference store, a work whose attributes are those of another
\* work and one more tag, a tag whose pair has no stored Preference Entry, has the
\* same tag score as the other; and the tag score of a work is the same in
\* whatever order the stored entries are visited.
C13_UnmatchedPairIgnored ==
  /\ \A x, y \in DOMAIN video_features :
       LET fx == video_features[x].ai_features
           fy == video_features[y].ai_features
       IN  (\E t \in Range(fy.top_tags) :
              /\ fy = [fx EXCEPT !.top_tags = Append(@, t)]
              /\ <<"tag_" \o t, t>> \notin DOMAIN user_preferences)
             => calculateVideoPreferenceScore(y) = calculateVideoPreferenceScore(x)
  /\ \A aweme_id \in DOMAIN video_features :
       \A rows \in Reorderings(getUserPreferences(user_preferences)) :
         ScoreOfRows(rows, video_features[aweme_id].ai_features)
           = calculateVideoPreferenceScore(aweme_id)

\* v1 was scored, v1 being v2 and the tag cat, with two stored entries that match
\* and weigh ln 2 and ln 3: the score is their mean
C13_Witness ==
  /\ Scored /\ last.aweme_id = "v1"
  /\ <<"tag_cat", "cat">> \notin DOMAIN user_preferences
  /\ <<"primary_scene_type", "indoor">> \in DOMAIN user_preferences
  /\ <<"description_summary", "a room">> \in DOMAIN user_preferences
  /\ user_preferences[<<"primary_scene_type", "indoor">>]
       = [preference_score |-> RInt(1), sample_count |-> 1]
  /\ user_preferences[<<"description_summary", "a room">>]
       = [preference_score |-> RInt(1), sample_count |-> 2]
  /\ last.score = RealScale(<<1, 2>>, RealAdd(MathLog(2), MathLog(3)))

\* The square of a real that is a rational or a multiple of one square root
RealSquare(x) ==
  IF x = RealZero THEN RInt(0)
  ELSE LET a == CHOOSE b \in DOMAIN x : TRUE
       IN  IF a = One THEN RMul(x[a], x[a])
           ELSE RMul(RMul(x[a], x[a]), <<a[2], a[3]>>)

\* C14: the similarity that score() takes of the profile vector a and the
\* embedding b of a work is 0 when a or b has norm zero; otherwise it has the
\* sign of dot(a, b), its square is dot(a, b)^2 / (|a|^2 * |b|^2), and it lies in
\* [-1, 1].
C14_CosineInRange ==
  \A aweme_id \in DOMAIN video_vectors :
    HasProfile =>
      LET a == user_profiles["default"].vector
          b == video_vectors[aweme_id]
          similarity == cosineSimilarity(a, b)
      IN  /\ Cardinality(DOMAIN similarity) <= 1
          /\ IF Dot(a, a) = RInt(0) \/ Dot(b, b) = RInt(0)
             THEN similarity = RealZero
             ELSE /\ RealSign(similarity) = Sign(Dot(a, b)[1])
                  /\ RMul(RealSquare(similarity), RMul(Dot(a, a), Dot(b, b)))
                       = RMul(Dot(a, b), Dot(a, b))
                  /\ ~RealLess(RealOfRat(RInt(1)), similarity)
                  /\ ~RealLess(similarity, RealOfRat(RInt(-1)))

\* v1 was scored while the profile vector is [0,0] and the embedding of v1 is
\* not: the similarity is 0, and the score is the tag score
C14_Witness ==
  /\ Scored /\ last.aweme_id = "v1"
  /\ HasProfile /\ HasEmbedding("v1")
  /\ user_profiles["default"].vector = <<RInt(0), RInt(0)>>
  /\ video_vectors["v1"] = <<RInt(1), RInt(-1)>>
  /\ Similarity("v1") = RealZero
  /\ last.score = RealZero

\* The last operation was sortVideosByPreference(videos)
Sorted == last.op = "sortVideosByPreference"

PositionIn(videos, aweme_id) ==
  CHOOSE i \in DOMAIN videos : videos[i].aweme_id = aweme_id

\* ranked is a permutation of videos, in non-increasing order of ScoreOf, and
\* works of equal ScoreOf are in the order they have in videos
Ranked(videos, ranked, ScoreOf(_)) ==
  /\ Len(ranked) = Len(videos)
  /\ {ranked[i].aweme_id : i \in DOMAIN ranked}
       = {videos[i].aweme_id : i \in DOMAIN videos}
  /\ \A i, j \in DOMAIN ranked :
       i < j => /\ ~RealLess(ScoreOf(ranked[i].aweme_id), ScoreOf(ranked[j].aweme_id))
                /\ ScoreOf(ranked[i].aweme_id) = ScoreOf(ranked[j].aweme_id)
                     => PositionIn(videos, ranked[i].aweme_id)
                          < PositionIn(videos, ranked[j].aweme_id)

RankedByBlendedScore ==
  Sorted =>
    IF last.ret
    THEN Ranked(last.feedbacks, last.results, getVideoRecommendationScore)
    ELSE last.results = last.feedbacks

\* C16: downloading one file makes at most MAX_RETRY + 1 attempts, MAX_RETRY
\* being the number of retries set in the environment
C16_AtMostMaxRetryPlusOne ==
  download.MAX_RETRY # Null => download.attempts <= download.MAX_RETRY[1] + 1

\* The attempts are bounded by the maxRetry of the Downloader: a failed attempt
\* is retried only while retryCount < maxRetry, retryCount is the number of
\* retries made, false is returned at the limit only, and nothing follows an
\* attempt that has returned
AttemptsWithinMaxRetry ==
  /\ download.attempts <= download.maxRetry + 1
  /\ download.pc # "idle" => download.attempts = download.retryCount + 1
  /\ download.result = "false" => download.retryCount = download.maxRetry

ReturnIsFinal ==
  [][download.pc = "returned" /\ download'.files = download.files
       => download' = download]_vars

\* MAX_RETRY=0 in the environment and a fourth attempt at the same file
MaxRetryZeroRetried ==
  /\ download.MAX_RETRY = Some(0)
  /\ download.attempts = 4

\* A write stream error ends the call with a rejection: neither true nor false
WriterErrorRejects ==
  download.result # "rejected"

\* The number of calls db.updateUserPreference made so far for the pair k
CallsMade(hist, k) == IF k \in DOMAIN hist THEN hist[k].n ELSE 0

\* C19: when the storage of a Preference Entry of the item fails during
\* processFeedback, the call returns false, the user profile is not updated, and
\* the failed operation is made once only (the entry is left as it was)
C19_StorageFailureReturnsFalse ==
  [][FeedbackStep /\ Attributes(last'.aweme_id) \cap failing # {}
       => /\ last'.ret = FALSE
          /\ user_profiles' = user_profiles
          /\ profileHistory' = profileHistory
          /\ \A k \in Attributes(last'.aweme_id) \cap failing :
               /\ CallsMade(prefHistory', k) = CallsMade(prefHistory, k) + 1
               /\ SampleCount(user_preferences', k) = SampleCount(user_preferences, k)
     ]_vars

\* A like of a work with an embedding has just failed on a storage error
C19_Witness ==
  /\ last.op = "processFeedback"
  /\ last.feedbackType = "like"
  /\ last.ret = FALSE
  /\ HasEmbedding(last.aweme_id)
  /\ Attributes(last.aweme_id) \cap failing # {}
  /\ ~HasProfile

\* C20: a call of processFeedback that returns false has changed no Preference
\* Entry and no user profile
C20_NoPartialWrite ==
  [][FeedbackStep /\ last'.ret = FALSE
       => /\ user_preferences' = user_preferences
          /\ user_profiles' = user_profiles
     ]_vars

\* A call that returned false on a storage error changed the user profile never,
\* and no Preference Entry when the item has one pair only
FailedCallKeepsProfile ==
  [][FeedbackStep /\ last'.ret = FALSE
       => /\ user_profiles' = user_profiles
          /\ Cardinality(Attributes(last'.aweme_id)) <= 1
               => user_preferences' = user_preferences
     ]_vars

\* A failed call has left an entry behind: the item has two pairs, one failed
PartialWriteLeft ==
  /\ last.op = "processFeedback"
  /\ last.ret = FALSE
  /\ \E k \in Attributes(last.aweme_id) :
       /\ k \notin failing
       /\ SampleCount(user_preferences, k) = events
       /\ events >= 1

\* Every invocation has returned and every statement it issued has run
Quiescent ==
  \A c \in DOMAIN calls :
    /\ calls[c].stage = "returned"
    /\ \A k \in DOMAIN calls[c].pairs : calls[c].pairs[k].pc = "done"

\* C17: whatever the interleaving of the invocations of processFeedback in
\* progress at the same time, every Preference Entry ends with sample_count equal
\* to the number of events that touched it and score equal to the mean of their
\* weights, and every invocation returns true
C17_EntryUpdatesSerialized ==
  Quiescent =>
    /\ \A k \in DOMAIN prefHistory :
         /\ k \in DOMAIN user_preferences
         /\ user_preferences[k].sample_count = prefHistory[k].n
         /\ RMul(user_preferences[k].preference_score, RInt(prefHistory[k].n))
              = RInt(prefHistory[k].sum)
    /\ \A c \in DOMAIN calls : calls[c].ret = "true"

\* Two invocations on the pair of an earlier event have both returned true and
\* the entry counts two events
LostEntryUpdate ==
  /\ Quiescent
  /\ \A c \in DOMAIN calls : calls[c].ret = "true"
  /\ \E k \in DOMAIN prefHistory :
       /\ prefHistory[k].n = 3
       /\ user_preferences[k].sample_count = 2

\* An invocation on an analysed work has returned false: its INSERT was refused
\* because the other invocation had inserted the row since the SELECT
InsertRefused ==
  /\ Quiescent
  /\ \E c \in DOMAIN calls : calls[c].ret = "false"

\* C18: whatever the interleaving of the likes processed at the same time on
\* works with embeddings, the profile ends with count equal to the number of
\* likes folded in and vector equal to the mean of their embeddings
C18_ProfileUpdatesSerialized ==
  Quiescent /\ profileHistory.n > 0 =>
    /\ HasProfile
    /\ user_profiles["default"].count = profileHistory.n
    /\ \A i \in DOMAIN profileHistory.sum :
         RMul(user_profiles["default"].vector[i], RInt(profileHistory.n))
           = profileHistory.sum[i]

\* Three likes have been folded in, two of them at the same time, and the
\* profile counts two
LostProfileUpdate ==
  /\ Quiescent
  /\ profileHistory.n = 3
  /\ user_profiles["default"].count = 2

\* C21: on a fresh store, after one successful like on a work with at least one
\* attribute pair, the tag score of that work is likeWeight * ln 2, which is
\* strictly positive: scoring matches the pairs that the feedback recorded
C21_LikedItemScoresPositive ==
  (/\ events = 1
   /\ last.op = "processFeedback" /\ last.feedbackType = "like" /\ last.ret
   /\ Attributes(last.aweme_id) # {})
    => calculateVideoPreferenceScore(last.aweme_id)
         = RealScale(RInt(likeWeight), MathLog(2))

\* The first like has recorded an entry for every pair of the work, and the tag
\* score of the work is 0
LikedItemScoresZero ==
  /\ events = 1
  /\ last.op = "processFeedback" /\ last.feedbackType = "like" /\ last.ret
  /\ Attributes(last.aweme_id) # {}
  /\ Attributes(last.aweme_id) = DOMAIN user_preferences
  /\ calculateVideoPreferenceScore(last.aweme_id) = RealZero

\* This step is a feedback event that touches the pair k
Touches(k) ==
  /\ FeedbackStep
  /\ last'.ret
  /\ k \in Attributes(last'.aweme_id)

\* C22: a Preference Entry that exists is there after every feedback, scoring or
\* statistics operation, once among the rows of its pair; its sample_count grows
\* by exactly 1 in a feedback event that touches the pair and stays the same in
\* every other step
C22_EntryPersists ==
  [][/\ \A k \in DOMAIN user_preferences :
          /\ k \in DOMAIN user_preferences'
          /\ user_preferences'[k].sample_count
               = user_preferences[k].sample_count + (IF Touches(k) THEN 1 ELSE 0)
     /\ LET rows == getUserPreferences(user_preferences')
        IN  \A i, j \in DOMAIN rows :
              (/\ rows[i].feature_key = rows[j].feature_key
               /\ rows[i].feature_value = rows[j].feature_value) => i = j
    ]_vars

\* The statistics have just been read of a store where one entry was touched by
\* three events and another by one
C22_Witness ==
  /\ last.op = "getUserPreferenceStats"
  /\ last.results[1].total_features >= 2
  /\ \E k, j \in DOMAIN user_preferences :
       /\ user_preferences[k].sample_count = 3
       /\ user_preferences[j].sample_count = 1

\* The part of C22 that needs no order of the events: an entry that exists stays,
\* and its sample_count does not decrease
EntryStays ==
  [][\A k \in DOMAIN user_preferences :
       /\ k \in DOMAIN user_preferences'
       /\ user_preferences'[k].sample_count >= user_preferences[k].sample_count
    ]_vars

\* The last step was a request to a feedback endpoint that was answered with its
\* list of results
Answered(endpoint) == last.op = endpoint /\ last.ret

\* The response has one result per feedback event, and its success is the
\* boolean processFeedback returns for the event
SuccessIsFeedbackResult ==
  /\ Len(last.results) = Len(last.feedbacks)
  /\ \A i \in DOMAIN last.results :
       last.results[i].success
         = processFeedback(Stores, last.feedbacks[i].aweme_id,
                           last.feedbacks[i].feedback_type).ret

\* C23: for every feedback event submitted through POST /api/feedback or POST
\* /api/feedback-unanalyzed, the success value of the event in the response is
\* the boolean processFeedback returns for it: false for a work with no stored
\* attributes
C23_ResponseSurfacesResult ==
  (Answered("POST /api/feedback") \/ Answered("POST /api/feedback-unanalyzed"))
    => SuccessIsFeedbackResult

\* What holds of the code in the case of C23: POST /api/feedback reports the
\* results of processBatchFeedback, POST /api/feedback-unanalyzed reports
\* success = true for every event
BatchEndpointSurfacesResult ==
  /\ Answered("POST /api/feedback") => SuccessIsFeedbackResult
  /\ Answered("POST /api/feedback-unanalyzed")
       => \A i \in DOMAIN last.results : last.results[i].success

\* POST /api/feedback-unanalyzed has reported success for a work without stored
\* attributes
UnanalyzedReportedTrue ==
  /\ Answered("POST /api/feedback-unanalyzed")
  /\ \E i \in DOMAIN last.results :
       /\ last.results[i].success
       /\ ~HasAttributes(last.results[i].aweme_id)

\* C24: in every state reached by feedback events executed one after another,
\* every Preference Entry has sample_count >= 1 and a score between
\* dislikeWeight and likeWeight, which is -1 <= score <= 1 with the default
\* weights
C24_ScoreWithinWeights ==
  \A k \in DOMAIN user_preferences :
    /\ user_preferences[k].sample_count >= 1
    /\ RLeq(RInt(dislikeWeight), user_preferences[k].preference_score)
    /\ RLeq(user_preferences[k].preference_score, RInt(likeWeight))

\* An entry at the lower bound after two dislikes, and an entry strictly inside
\* the bounds after a like and two dislikes
C24_Witness ==
  \E k, j \in DOMAIN user_preferences :
    /\ user_preferences[k].preference_score = RInt(dislikeWeight)
    /\ user_preferences[k].sample_count = 2
    /\ user_preferences[j].preference_score = <<-1, 3>>
    /\ user_preferences[j].sample_count = 3

\* C25: processFeedback on a work with stored attributes, with a feedback type
\* other than the exact string 'like' ('dislike', another string, nothing),
\* applies dislikeWeight once to every pair of the work and to no other, leaves
\* the user profile as it is, and returns true
C25_NotLikeIsDislike ==
  [][(FeedbackStep /\ last'.feedbackType # "like" /\ HasAttributes(last'.aweme_id))
       => /\ last'.ret
          /\ user_profiles' = user_profiles
          /\ DOMAIN user_preferences'
               = DOMAIN user_preferences \cup Attributes(last'.aweme_id)
          /\ \A k \in DOMAIN user_preferences' :
               IF k \in Attributes(last'.aweme_id)
               THEN AppliedOnce(k, dislikeWeight)
               ELSE user_preferences'[k] = user_preferences[k]]_vars

\* A feedback of type 'Like' on a liked work with an embedding has lowered the
\* score of its entries, and the profile still counts the one like
C25_Witness ==
  /\ last.op = "processFeedback"
  /\ last.feedbackType = "Like"
  /\ last.ret
  /\ HasEmbedding(last.aweme_id)
  /\ HasProfile /\ user_profiles["default"].count = 1
  /\ \A k \in Attributes(last.aweme_id) :
       /\ user_preferences[k].sample_count = 2
       /\ user_preferences[k].preference_score = RInt(0)

\* C26: the first liked embedding fixes the dimension of the user profile
\* vector; every later updateUserProfile writes a vector of the stored length,
\* whatever the length of the incoming embedding, and the like returns true
C26_ProfileDimensionFixed ==
  [][/\ (FeedbackStep /\ last'.feedbackType = "like") => last'.ret
     /\ (FeedbackStep /\ last'.feedbackType = "like" /\ ~HasProfile)
          => /\ HasProfile'
             /\ user_profiles'["default"].vector = video_vectors[last'.aweme_id]
     /\ HasProfile
          => /\ HasProfile'
             /\ Len(user_profiles'["default"].vector)
                  = Len(user_profiles["default"].vector)
             /\ (FeedbackStep /\ last'.feedbackType = "like")
                  => user_profiles'["default"].count
                       = user_profiles["default"].count + 1
    ]_vars

\* Three likes: an embedding of dimension 2, then a longer and a shorter one,
\* have left a profile of dimension 2
C26_Witness ==
  /\ profileHistory.n = 3
  /\ Len(user_profiles["default"].vector) = 2
  /\ user_profiles["default"].count = 3
  /\ \E a, b \in Items :
       /\ Len(video_vectors[a]) = 1
       /\ Len(video_vectors[b]) = 3
       /\ user_profiles["default"].vector[2] = Null

\* C27: downloader.processItem is invoked at most once for a job_id, whatever
\* the interleaving of the processJob of POST /api/download and the passes of
\* processPendingJobs
C27_JobExecutedAtMostOnce ==
  \A j \in DOMAIN processor.processItem : processor.processItem[j] <= 1

\* The calls of processJob or processBatchJob awaited by a pass and not returned
PassRuns ==
  {r \in DOMAIN processor.runs :
     processor.runs[r].owner = "pass" /\ processor.runs[r].pc # "done"}

\* The passes of processPendingJobs in progress: reading the pending jobs, or
\* awaiting the job they picked
PassesInProgress ==
  Cardinality(PassRuns) + (IF processor.pass \in {"batch", "jobs"} THEN 1 ELSE 0)

\* C28: at most one pass of processPendingJobs is in progress, isProcessing is
\* true exactly while one is (so it is false again when the pass has ended,
\* whether it completed or threw), and a tick that finds a pass in progress
\* reads and changes no job and starts no call
C28_SinglePass ==
  /\ [](/\ PassesInProgress <= 1
        /\ processor.isProcessing <=> (PassesInProgress = 1)
        /\ (processor.pass = "running") <=> (PassRuns # {}))
  /\ [][(processor.isProcessing /\ processor'.tick = "skipped"
           /\ processor.tick # "skipped")
          => /\ UNCHANGED <<download_jobs, batch_download_jobs>>
             /\ processor' = [processor EXCEPT !.tick = "skipped"]]_vars

\* A tick was skipped during a pass, and the pass has ended since: its
\* processJob has returned and isProcessing is false
C28_Witness ==
  /\ processor.tick = "skipped"
  /\ ~processor.isProcessing
  /\ processor.pass = "idle"
  /\ \E r \in DOMAIN processor.runs :
       processor.runs[r].owner = "pass" /\ processor.runs[r].pc = "done"

\* The moves of a status the job functions are meant to make: the request that
\* brings its download_url completes a pending job at once
StatusMoves ==
  {<<"pending", "processing">>, <<"processing", "completed">>,
   <<"processing", "failed">>, <<"pending", "completed">>}

\* C29: the status of a job only moves pending -> processing -> completed or
\* failed, and a completed or failed job keeps its status
C29_StatusOnlyMovesForward ==
  [][\A j \in DOMAIN download_jobs :
       download_jobs'[j].status # download_jobs[j].status
         => <<download_jobs[j].status, download_jobs'[j].status>> \in StatusMoves
    ]_vars

\* A job that was completed is processing again
CompletedJobReopened ==
  \E r \in DOMAIN processor.runs, q \in DOMAIN processor.runs :
    /\ r # q
    /\ processor.runs[r].job_id = processor.runs[q].job_id
    /\ processor.runs[r].pc = "done" /\ processor.runs[r].success = "true"
    /\ processor.runs[q].pc = "download"
    /\ download_jobs[processor.runs[r].job_id].status = "processing"

\* C30: in a batch job completed_count + failed_count never exceeds
\* total_count, download_urls has exactly completed_count entries, and when
\* the status is completed the sum equals total_count
C30_BatchCountsAddUp ==
  \A j \in DOMAIN batch_download_jobs :
    LET job == batch_download_jobs[j]
    IN  /\ job.completed_count + job.failed_count <= job.total_count
        /\ Len(job.download_urls) = job.completed_count
        /\ job.status = "completed"
             => job.completed_count + job.failed_count = job.total_count

\* The same counts while no write has rejected and one call of
\* processBatchJob at most has been made
CountsAddUpInOneQuietRun ==
  (processor.rejected = 0 /\ Len(processor.runs) <= 1) => C30_BatchCountsAddUp

\* No write has rejected, and the job has a link while its completed_count is
\* 0: the second call of processBatchJob wrote 'processing', 0, 0 over the
\* progress of the first
LinksOutliveCounts ==
  /\ processor.rejected = 0
  /\ \E j \in DOMAIN batch_download_jobs :
       /\ batch_download_jobs[j].completed_count = 0
       /\ Len(batch_download_jobs[j].download_urls) = 1

\* A completed job of one work that counts it as completed and as failed
WorkCountedTwice ==
  \E j \in DOMAIN batch_download_jobs :
    /\ batch_download_jobs[j].status = "completed"
    /\ batch_download_jobs[j].total_count = 1
    /\ batch_download_jobs[j].completed_count = 1
    /\ batch_download_jobs[j].failed_count = 1

====
